---- MODULE Spec2Model ----
(***************************************************************************)
(* Scheduling and availability engine of the AI calendar assistant.        *)
(*                                                                         *)
(* Instants are minutes counted from 0001-01-01 00:00 (proleptic ordinal   *)
(* day * 1440 + minute of day), so a datetime is one integer and a         *)
(* timedelta is an integer number of minutes.  Strings are sequences of    *)
(* one-character strings, so that length, substring search, splitting and  *)
(* number parsing are computed as the code computes them.  A JSON value    *)
(* is a tagged record: [t |-> "null"], [t |-> "str", v |-> chars],         *)
(* [t |-> "int", v |-> n].                                                 *)
(***************************************************************************)
EXTENDS Integers, Sequences, FiniteSets, TLC

\* ------------------------------------------------------------------------
\* config/business_hours.py
\* ------------------------------------------------------------------------
BUSINESS_START_HOUR == 10
BUSINESS_END_HOUR == 18

\* ------------------------------------------------------------------------
\* datetime arithmetic (the part of Python's datetime the code relies on)
\* ------------------------------------------------------------------------
MinutesPerDay == 24 * 60

IsLeap(y) == (y % 4 = 0) /\ ((y % 100 # 0) \/ (y % 400 = 0))

DaysInMonth(y, m) ==
    IF m = 2 THEN (IF IsLeap(y) THEN 29 ELSE 28)
    ELSE IF m \in {4, 6, 9, 11} THEN 30 ELSE 31

RECURSIVE DaysBeforeMonth(_, _)
DaysBeforeMonth(y, m) ==
    IF m <= 1 THEN 0 ELSE DaysBeforeMonth(y, m - 1) + DaysInMonth(y, m - 1)

DaysBeforeYear(y) ==
    LET k == y - 1 IN k * 365 + (k \div 4) - (k \div 100) + (k \div 400)

\* date(y, m, d).toordinal()
ToOrdinal(y, m, d) == DaysBeforeYear(y) + DaysBeforeMonth(y, m) + d

\* datetime.weekday(): Monday = 0 ... Sunday = 6
Weekday(day) == (day + 6) % 7

\* the calendar day of an instant, and its time of day in minutes
DayOf(t) == t \div MinutesPerDay
TimeOfDay(t) == t % MinutesPerDay
HourOf(t) == TimeOfDay(t) \div 60

\* date.replace(hour=h, minute=m, second=0, microsecond=0)
AtTime(day, h, m) == day * MinutesPerDay + h * 60 + m

\* ------------------------------------------------------------------------
\* The calendar backend (Google Calendar behind CalendarService.service).
\* An event is [start, end, by]: by = 0 for an event that was in the
\* calendar before the engine ran, by = p for one written by request p.
\* ------------------------------------------------------------------------
Overlaps(e, tmin, tmax) == e.start < tmax /\ e.end > tmin

\* start order, ties broken by end and then by writer
Before(a, b) ==
    \/ a.start < b.start
    \/ a.start = b.start /\ a.end < b.end
    \/ a.start = b.start /\ a.end = b.end /\ a.by <= b.by

RECURSIVE SortByStart(_)
SortByStart(S) ==
    IF S = {} THEN << >>
    ELSE LET first == CHOOSE a \in S : \A b \in S : Before(a, b)
         IN  << first >> \o SortByStart(S \ {first})

\* events().list(timeMin, timeMax, singleEvents=True, orderBy='startTime')
EventsList(cal, tmin, tmax) ==
    SortByStart({e \in cal : Overlaps(e, tmin, tmax)})

\* ------------------------------------------------------------------------
\* CalendarService.get_available_slots: the gap walk over the listed events
\* ------------------------------------------------------------------------
Max(a, b) == IF a >= b THEN a ELSE b
Min(a, b) == IF a <= b THEN a ELSE b

\* strftime('%H:%M')
DigitChar(n) ==
    CASE n = 0 -> "0" [] n = 1 -> "1" [] n = 2 -> "2" [] n = 3 -> "3"
      [] n = 4 -> "4" [] n = 5 -> "5" [] n = 6 -> "6" [] n = 7 -> "7"
      [] n = 8 -> "8" [] n = 9 -> "9"

TwoDigits(n) == << DigitChar(n \div 10), DigitChar(n % 10) >>

FormatHM(t) ==
    TwoDigits(HourOf(t)) \o << ":" >> \o TwoDigits(TimeOfDay(t) % 60)

Slot(start, end, duration_hours) ==
    [start |-> start, end |-> end,
     start_time |-> FormatHM(start), end_time |-> FormatHM(end),
     duration |-> duration_hours]

\* variant of the loop body: the cursor jumps to the end of the event even
\* when an earlier event ended later (current_time = event_end)
GapBeforeEventNoMax(available_slots, current_time, event, duration_hours) ==
    LET gap == event.start - current_time
        slot_end == Min(event.start, current_time + duration_hours * 60)
        emitted ==
            IF gap >= duration_hours * 60 /\ slot_end > current_time
            THEN Append(available_slots,
                        Slot(current_time, slot_end, duration_hours))
            ELSE available_slots
    IN  << emitted, event.end >>

\* variant of the gap walk: every free gap is tiled with as many slots as
\* fit, instead of one slot at the cursor
RECURSIVE Tile(_, _, _, _)
Tile(available_slots, from, to, duration_hours) ==
    IF to - from < duration_hours * 60 THEN available_slots
    ELSE Tile(Append(available_slots,
                     Slot(from, from + duration_hours * 60, duration_hours)),
              from + duration_hours * 60, to, duration_hours)

RECURSIVE TileGaps(_, _, _, _, _, _)
TileGaps(events, k, available_slots, current_time, day_end, duration_hours) ==
    IF k > Len(events)
    THEN Tile(available_slots, current_time, day_end, duration_hours)
    ELSE TileGaps(events, k + 1,
                  Tile(available_slots, current_time, events[k].start,
                       duration_hours),
                  Max(current_time, events[k].end), day_end, duration_hours)

SlotsFromEventsTiled(events, day, duration_hours) ==
    TileGaps(events, 1, << >>, AtTime(day, BUSINESS_START_HOUR, 0),
             AtTime(day, BUSINESS_END_HOUR, 0), duration_hours)

\* one iteration of the loop body: returns <<available_slots, current_time>>
GapBeforeEvent(available_slots, current_time, event, duration_hours) ==
    LET gap == event.start - current_time
        slot_end == Min(event.start, current_time + duration_hours * 60)
        emitted ==
            IF gap >= duration_hours * 60 /\ slot_end > current_time
            THEN Append(available_slots,
                        Slot(current_time, slot_end, duration_hours))
            ELSE available_slots
    IN  << emitted, Max(current_time, event.end) >>

RECURSIVE WalkEvents(_, _, _, _, _)
WalkEvents(events, k, available_slots, current_time, duration_hours) ==
    IF k > Len(events) THEN << available_slots, current_time >>
    ELSE LET step == GapBeforeEvent(available_slots, current_time,
                                    events[k], duration_hours)
         IN  WalkEvents(events, k + 1, step[1], step[2], duration_hours)

\* the slots computed from the listed events of the day
SlotsFromEvents(events, day, duration_hours) ==
    LET day_start == AtTime(day, BUSINESS_START_HOUR, 0)
        day_end == AtTime(day, BUSINESS_END_HOUR, 0)
        walked == WalkEvents(events, 1, << >>, day_start, duration_hours)
        available_slots == walked[1]
        current_time == walked[2]
    IN  IF day_end - current_time >= duration_hours * 60
        THEN Append(available_slots,
                    Slot(current_time, current_time + duration_hours * 60,
                         duration_hours))
        ELSE available_slots

\* variant of get_available_slots: a list call that failed is taken for an
\* empty list of events
get_available_slots_unguarded(cal, ok, day, duration_hours) ==
    IF ~ok THEN SlotsFromEvents(<< >>, day, duration_hours)
    ELSE SlotsFromEvents(
             EventsList(cal, AtTime(day, BUSINESS_START_HOUR, 0),
                             AtTime(day, BUSINESS_END_HOUR, 0)),
             day, duration_hours)

\* get_available_slots(date, duration_hours): ok = FALSE when the service is
\* not available or the list call raises
get_available_slots(cal, ok, day, duration_hours) ==
    IF ~ok THEN << >>
    ELSE SlotsFromEvents(
             EventsList(cal, AtTime(day, BUSINESS_START_HOUR, 0),
                             AtTime(day, BUSINESS_END_HOUR, 0)),
             day, duration_hours)

\* ------------------------------------------------------------------------
\* Python str operations on character sequences
\* ------------------------------------------------------------------------
Digits == {"0", "1", "2", "3", "4", "5", "6", "7", "8", "9"}

DigitVal(c) ==
    CASE c = "0" -> 0 [] c = "1" -> 1 [] c = "2" -> 2 [] c = "3" -> 3
      [] c = "4" -> 4 [] c = "5" -> 5 [] c = "6" -> 6 [] c = "7" -> 7
      [] c = "8" -> 8 [] c = "9" -> 9

\* str.lower() on ASCII letters
LowerChar(c) ==
    CASE c = "A" -> "a" [] c = "B" -> "b" [] c = "C" -> "c" [] c = "D" -> "d"
      [] c = "E" -> "e" [] c = "F" -> "f" [] c = "G" -> "g" [] c = "H" -> "h"
      [] c = "I" -> "i" [] c = "J" -> "j" [] c = "K" -> "k" [] c = "L" -> "l"
      [] c = "M" -> "m" [] c = "N" -> "n" [] c = "O" -> "o" [] c = "P" -> "p"
      [] c = "Q" -> "q" [] c = "R" -> "r" [] c = "S" -> "s" [] c = "T" -> "t"
      [] c = "U" -> "u" [] c = "V" -> "v" [] c = "W" -> "w" [] c = "X" -> "x"
      [] c = "Y" -> "y" [] c = "Z" -> "z"
      [] OTHER -> c

Lower(s) == [k \in 1..Len(s) |-> LowerChar(s[k])]

\* s[i:j] with Python's 0-based, end-exclusive indices
Slice(s, i, j) == IF j <= i THEN << >> ELSE SubSeq(s, i + 1, j)

\* s.startswith(sub, i)
MatchAt(s, sub, i) ==
    /\ i + Len(sub) <= Len(s)
    /\ \A k \in 1..Len(sub) : s[i + k] = sub[k]

\* sub in s
Contains(s, sub) == \E i \in 0..Len(s) : MatchAt(s, sub, i)

\* s.count(c) for a single character
CountChar(s, c) == Cardinality({k \in 1..Len(s) : s[k] = c})

\* s.strip()
RECURSIVE LStrip(_)
LStrip(s) == IF s # << >> /\ Head(s) = " " THEN LStrip(Tail(s)) ELSE s
RECURSIVE RStrip(_)
RStrip(s) ==
    IF s # << >> /\ s[Len(s)] = " " THEN RStrip(SubSeq(s, 1, Len(s) - 1)) ELSE s
Strip(s) == RStrip(LStrip(s))

\* s.replace(sub, ''): leftmost non-overlapping occurrences removed
RECURSIVE RemoveAll(_, _)
RemoveAll(s, sub) ==
    IF s = << >> THEN << >>
    ELSE IF MatchAt(s, sub, 0) THEN RemoveAll(Slice(s, Len(sub), Len(s)), sub)
    ELSE << Head(s) >> \o RemoveAll(Tail(s), sub)

\* s.split(c): the sequence of fields
RECURSIVE Split(_, _)
Split(s, c) ==
    IF \A k \in 1..Len(s) : s[k] # c THEN << s >>
    ELSE LET i == CHOOSE k \in 1..Len(s) :
                      s[k] = c /\ \A j \in 1..(k - 1) : s[j] # c
         IN  << SubSeq(s, 1, i - 1) >> \o Split(SubSeq(s, i + 1, Len(s)), c)

RECURSIVE DigitsValue(_)
DigitsValue(s) ==
    IF s = << >> THEN 0
    ELSE DigitsValue(SubSeq(s, 1, Len(s) - 1)) * 10 + DigitVal(s[Len(s)])

AllDigits(s) == s # << >> /\ \A k \in 1..Len(s) : s[k] \in Digits

\* int(s): surrounding blanks and one sign are accepted; anything else is a
\* ValueError (ok = FALSE)
ParseDigits(body, negative) ==
    IF AllDigits(body)
    THEN [ok |-> TRUE,
          v |-> IF negative THEN 0 - DigitsValue(body) ELSE DigitsValue(body)]
    ELSE [ok |-> FALSE, v |-> 0]

ParseStripped(t) ==
    IF t # << >> /\ Head(t) \in {"+", "-"}
    THEN ParseDigits(Tail(t), Head(t) = "-")
    ELSE ParseDigits(t, FALSE)

ParseInt(s) == ParseStripped(Strip(s))

\* ------------------------------------------------------------------------
\* JSON values of the intent object
\* ------------------------------------------------------------------------
Null == [t |-> "null"]
Str(s) == [t |-> "str", v |-> s]
Num(n) == [t |-> "int", v |-> n]

\* Python truthiness: None, '' and 0 are falsy
Truthy(x) ==
    CASE x.t = "null" -> FALSE
      [] x.t = "str" -> x.v # << >>
      [] x.t = "int" -> x.v # 0

\* dict.get(key, default) on a function whose domain is the keys present
Get(d, key, default) == IF key \in DOMAIN d THEN d[key] ELSE default

\* ------------------------------------------------------------------------
\* DateParser (backend/agent/helpers/date_parser.py)
\* ------------------------------------------------------------------------
\* datetime.now().date(): Thursday 2025-01-02, so that tomorrow is a
\* business day and the day after tomorrow a Saturday
Today == ToOrdinal(2025, 1, 2)

\* datetime.strptime(s, '%Y-%m-%d') for a 10-character string with two
\* hyphens: %Y is four digits, %m is 01..12, %d is 01..31 or a blank and a
\* digit, and the date has to exist
DateOf(yy, mm, dd) ==
    IF yy >= 1 /\ mm \in 1..12 /\ dd >= 1 /\ dd <= DaysInMonth(yy, mm)
    THEN [ok |-> TRUE, day |-> ToOrdinal(yy, mm, dd)]
    ELSE [ok |-> FALSE, day |-> 0]

DateFields(y, m, d) ==
    IF /\ Len(y) = 4 /\ AllDigits(y)
       /\ Len(m) = 2 /\ AllDigits(m)
       /\ Len(d) = 2 /\ AllDigits(d)
    THEN DateOf(DigitsValue(y), DigitsValue(m), DigitsValue(d))
    ELSE [ok |-> FALSE, day |-> 0]

\* the %d field ' 5' reads as '5'
DayField(d) == IF Len(d) = 2 /\ d[1] = " " THEN << "0", d[2] >> ELSE d

StrptimeParts(parts) ==
    IF Len(parts) = 3
    THEN DateFields(parts[1], parts[2], DayField(parts[3]))
    ELSE [ok |-> FALSE, day |-> 0]

Strptime(s) == StrptimeParts(Split(s, "-"))

\* parse_date(date_string): raised = TRUE when the exception leaves the
\* function; via names the branch that produced the date ("iso",
\* "relative", or "default" for the three defaulting-to-tomorrow returns)
ParsedDate(day, via) == [raised |-> FALSE, day |-> day, via |-> via]

\* the ISO branch: a ValueError of strptime is caught and defaults
IsoDate(parsed) ==
    IF parsed.ok THEN ParsedDate(parsed.day, "iso")
    ELSE ParsedDate(Today + 1, "default")

\* the natural-language branch
RelativeDate(lower) ==
    IF lower = <<"t","o","d","a","y">> THEN ParsedDate(Today, "relative")
    ELSE IF lower = <<"t","o","m","o","r","r","o","w">> THEN ParsedDate(Today + 1, "relative")
    ELSE IF lower \in {<<"d","a","y"," ","a","f","t","e","r"," ","t","o","m","o","r","r","o","w">>, <<"o","v","e","r","m","o","r","r","o","w">>}
    THEN ParsedDate(Today + 2, "relative")
    ELSE ParsedDate(Today + 1, "default")

ParseStrippedDate(s) ==
    IF Len(s) = 10 /\ CountChar(s, "-") = 2 THEN IsoDate(Strptime(s))
    ELSE RelativeDate(Lower(s))

parse_date(date_string) ==
    IF ~Truthy(date_string) THEN ParsedDate(Today + 1, "default")
    ELSE IF date_string.t # "str"
    THEN [raised |-> TRUE, day |-> 0, via |-> "none"]
    ELSE ParseStrippedDate(Strip(date_string.v))

\* parse_time(time_str) -> <<hour, minute>>: the fields before validation;
\* ok = FALSE when an exception sends the function to its except clause
ColonFields(h, m) == [ok |-> h.ok /\ m.ok, hour |-> h.v, minute |-> m.v]

ColonParts(parts) == ColonFields(ParseInt(parts[1]), ParseInt(parts[2]))

PmFields(h) ==
    [ok |-> h.ok, hour |-> IF h.v # 12 THEN h.v + 12 ELSE h.v, minute |-> 0]

AmFields(h) ==
    [ok |-> h.ok, hour |-> IF h.v = 12 THEN 0 ELSE h.v, minute |-> 0]

BareFields(h) == [ok |-> h.ok, hour |-> h.v, minute |-> 0]

StrTimeFields(s, lower) ==
    IF Contains(s, <<":">>) THEN ColonParts(Split(s, ":"))
    ELSE IF Contains(lower, <<"p","m">>)
    THEN PmFields(ParseInt(Strip(RemoveAll(lower, <<"p","m">>))))
    ELSE IF Contains(lower, <<"a","m">>)
    THEN AmFields(ParseInt(Strip(RemoveAll(lower, <<"a","m">>))))
    ELSE BareFields(ParseInt(s))

TimeFields(time_str) ==
    IF time_str.t # "str" THEN [ok |-> FALSE, hour |-> 0, minute |-> 0]
    ELSE StrTimeFields(time_str.v, Lower(time_str.v))

\* the validation of hour and minute, and the except clause's default
ValidatedTime(f) ==
    IF ~f.ok THEN << 14, 0 >>
    ELSE << IF f.hour \in 0..23 THEN f.hour ELSE 14,
            IF f.minute \in 0..59 THEN f.minute ELSE 0 >>

parse_time(time_str) == ValidatedTime(TimeFields(time_str))

\* ------------------------------------------------------------------------
\* AIAssistant._simple_intent_fallback (backend/agent/ai_assistant.py)
\* ------------------------------------------------------------------------
ContainsAny(s, words) == \E w \in words : Contains(s, w)

\* variant of the classifier: the cancellation keywords are looked for
\* before the availability keywords
FallbackIntentCancelFirst(message_lower) ==
    IF ContainsAny(message_lower,
                   {<<"b","o","o","k">>, <<"s","c","h","e","d","u","l","e">>, <<"a","p","p","o","i","n","t","m","e","n","t">>, <<"c","r","e","a","t","e">>, <<"m","a","k","e">>})
    THEN <<"b","o","o","k","_","a","p","p","o","i","n","t","m","e","n","t">>
    ELSE IF ContainsAny(message_lower, {<<"c","a","n","c","e","l">>, <<"d","e","l","e","t","e">>, <<"r","e","m","o","v","e">>})
    THEN <<"c","a","n","c","e","l","_","a","p","p","o","i","n","t","m","e","n","t">>
    ELSE IF ContainsAny(message_lower,
                   {<<"a","v","a","i","l","a","b","l","e">>, <<"f","r","e","e">>, <<"s","l","o","t","s">>, <<"s","h","o","w">>, <<"c","h","e","c","k">>})
    THEN <<"c","h","e","c","k","_","a","v","a","i","l","a","b","i","l","i","t","y">>
    ELSE <<"g","e","n","e","r","a","l","_","q","u","e","r","y">>

FallbackIntent(message_lower) ==
    IF ContainsAny(message_lower,
                   {<<"b","o","o","k">>, <<"s","c","h","e","d","u","l","e">>, <<"a","p","p","o","i","n","t","m","e","n","t">>, <<"c","r","e","a","t","e">>, <<"m","a","k","e">>})
    THEN <<"b","o","o","k","_","a","p","p","o","i","n","t","m","e","n","t">>
    ELSE IF ContainsAny(message_lower,
                   {<<"a","v","a","i","l","a","b","l","e">>, <<"f","r","e","e">>, <<"s","l","o","t","s">>, <<"s","h","o","w">>, <<"c","h","e","c","k">>})
    THEN <<"c","h","e","c","k","_","a","v","a","i","l","a","b","i","l","i","t","y">>
    ELSE IF ContainsAny(message_lower, {<<"c","a","n","c","e","l">>, <<"d","e","l","e","t","e">>, <<"r","e","m","o","v","e">>})
    THEN <<"c","a","n","c","e","l","_","a","p","p","o","i","n","t","m","e","n","t">>
    ELSE <<"g","e","n","e","r","a","l","_","q","u","e","r","y">>

FallbackDate(message_lower) ==
    IF Contains(message_lower, <<"t","o","m","o","r","r","o","w">>) THEN Str(<<"t","o","m","o","r","r","o","w">>)
    ELSE IF Contains(message_lower, <<"t","o","d","a","y">>) THEN Str(<<"t","o","d","a","y">>)
    ELSE IF Contains(message_lower, <<"m","o","n","d","a","y">>) THEN Str(<<"n","e","x","t"," ","m","o","n","d","a","y">>)
    ELSE IF Contains(message_lower, <<"t","u","e","s","d","a","y">>) THEN Str(<<"n","e","x","t"," ","t","u","e","s","d","a","y">>)
    ELSE IF Contains(message_lower, <<"f","r","i","d","a","y">>) THEN Str(<<"n","e","x","t"," ","f","r","i","d","a","y">>)
    ELSE Null

FallbackTime(message_lower) ==
    IF ContainsAny(message_lower, {<<"2","p","m">>, <<"2"," ","p","m">>}) THEN Str(<<"2","p","m">>)
    ELSE IF ContainsAny(message_lower, {<<"1","0","a","m">>, <<"1","0"," ","a","m">>}) THEN Str(<<"1","0","a","m">>)
    ELSE IF ContainsAny(message_lower, {<<"3","p","m">>, <<"3"," ","p","m">>}) THEN Str(<<"3","p","m">>)
    ELSE IF ContainsAny(message_lower, {<<"9","a","m">>, <<"9"," ","a","m">>}) THEN Str(<<"9","a","m">>)
    ELSE Null

\* the dict a ParsedIntent is carried in: a function from the keys present
IntentDict(intent, date, time, duration_minutes, appointment_type, confidence) ==
    [k \in {"intent", "date", "time", "duration_minutes",
            "appointment_type", "confidence"} |->
        CASE k = "intent" -> intent
          [] k = "date" -> date
          [] k = "time" -> time
          [] k = "duration_minutes" -> duration_minutes
          [] k = "appointment_type" -> appointment_type
          [] k = "confidence" -> confidence]

simple_intent_fallback(message) ==
    LET message_lower == Lower(message)
    IN  IntentDict(Str(FallbackIntent(message_lower)),
                   FallbackDate(message_lower),
                   FallbackTime(message_lower),
                   Num(60), Str(<<"a","p","p","o","i","n","t","m","e","n","t">>), Str(<<"l","o","w">>))

\* variant of _extract_intent: the parsed object is returned whenever it
\* is not empty, whether or not it has an 'intent' field
extract_intent_unvalidated(user_message, reply) ==
    IF reply.kind # "content" THEN simple_intent_fallback(user_message)
    ELSE IF reply.open # -1 /\ reply.close + 1 > reply.open
    THEN (IF ~reply.parse_ok \/ DOMAIN reply.parsed = {}
          THEN simple_intent_fallback(user_message)
          ELSE reply.parsed)
    ELSE simple_intent_fallback(user_message)

\* ------------------------------------------------------------------------
\* AIAssistant._extract_intent.  The completion service's reply is
\*   [kind |-> "raise"]                 httpx.post raised or timed out
\*   [kind |-> "status"]                a status code other than 200
\*   [kind |-> "malformed"]             200 whose body lacks choices[0]...
\*   [kind |-> "content", open, close, parse_ok, parsed]
\* where open and close are the results of ai_content.find('{') and
\* ai_content.rfind('}') (-1 when absent), parse_ok tells whether
\* json.loads accepts ai_content[open : close + 1], and parsed is the
\* object it returns, a function from the keys present to JSON values.
\* ------------------------------------------------------------------------
extract_intent(user_message, reply) ==
    IF reply.kind # "content" THEN simple_intent_fallback(user_message)
    ELSE LET json_start == reply.open
             json_end == reply.close + 1
         IN  IF json_start # -1 /\ json_end > json_start
             THEN (IF ~reply.parse_ok
                   THEN simple_intent_fallback(user_message)
                   ELSE IF DOMAIN reply.parsed = {}
                           \/ "intent" \notin DOMAIN reply.parsed
                   THEN simple_intent_fallback(user_message)
                   ELSE reply.parsed)
             ELSE simple_intent_fallback(user_message)

\* ------------------------------------------------------------------------
\* SlotManager (backend/agent/helpers/slot_manager.py): the pure parts
\* ------------------------------------------------------------------------
\* _get_next_business_days(start_date, count): the dates found
RECURSIVE NextBusinessDaysFrom(_, _, _, _)
NextBusinessDaysFrom(current_date, days_checked, business_days, count) ==
    IF ~(Len(business_days) < count /\ days_checked < 14) THEN business_days
    ELSE LET next == current_date + 1
         IN  NextBusinessDaysFrom(
                 next, days_checked + 1,
                 IF Weekday(next) < 5
                 THEN Append(business_days, [date |-> next, slots_count |-> 8])
                 ELSE business_days,
                 count)

\* variant of _get_next_business_days: the start date itself is the first
\* day inspected
get_next_business_days_from_start(start_date, count) ==
    NextBusinessDaysFrom(start_date - 1, 0, << >>, count)

get_next_business_days(start_date, count) ==
    NextBusinessDaysFrom(start_date, 0, << >>, count)

\* the result dict of check_time_availability; verdict names the return
\* statement that produced it
Availability(verdict) ==
    [verdict |-> verdict, available |-> FALSE,
     weekend_violation |-> FALSE, business_hours_violation |-> FALSE,
     conflict |-> FALSE, has_error |-> FALSE, has_window |-> FALSE,
     start_time |-> 0, end_time |-> 0,
     suggested_dates |-> << >>, suggested_times |-> << >>]

\* variant of the checks: the business-hours checks come before the
\* business-day check
WindowCheckHoursFirst(target_date, start_time, end_time) ==
    IF TimeOfDay(start_time) < 10 * 60
    THEN [Availability("before_hours") EXCEPT
             !.business_hours_violation = TRUE,
             !.suggested_times = << <<"1","0",":","0","0">>, <<"1","1",":","0","0">>, <<"1","2",":","0","0">>, <<"1","4",":","0","0">> >>]
    ELSE IF TimeOfDay(start_time) >= 18 * 60
    THEN [Availability("after_hours") EXCEPT
             !.business_hours_violation = TRUE,
             !.suggested_times = << <<"1","4",":","0","0">>, <<"1","5",":","0","0">>, <<"1","6",":","0","0">>, <<"1","7",":","0","0">> >>]
    ELSE IF TimeOfDay(end_time) > 18 * 60
    THEN [Availability("end_overruns_hours") EXCEPT
             !.business_hours_violation = TRUE,
             !.suggested_times = << <<"1","0",":","0","0">>, <<"1","1",":","0","0">>, <<"1","4",":","0","0">>, <<"1","5",":","0","0">> >>]
    ELSE IF Weekday(target_date) >= 5
    THEN [Availability("weekend") EXCEPT
             !.weekend_violation = TRUE,
             !.suggested_dates = get_next_business_days(target_date, 3)]
    ELSE [Availability("pending") EXCEPT
             !.has_window = TRUE,
             !.start_time = start_time, !.end_time = end_time]

\* variant of the business-hours checks: the check of the end time is
\* missing
WindowCheckStartOnly(target_date, start_time, end_time) ==
    IF Weekday(target_date) >= 5
    THEN [Availability("weekend") EXCEPT
             !.weekend_violation = TRUE,
             !.suggested_dates = get_next_business_days(target_date, 3)]
    ELSE IF TimeOfDay(start_time) < 10 * 60
    THEN [Availability("before_hours") EXCEPT
             !.business_hours_violation = TRUE,
             !.suggested_times = << <<"1","0",":","0","0">>, <<"1","1",":","0","0">>, <<"1","2",":","0","0">>, <<"1","4",":","0","0">> >>]
    ELSE IF TimeOfDay(start_time) >= 18 * 60
    THEN [Availability("after_hours") EXCEPT
             !.business_hours_violation = TRUE,
             !.suggested_times = << <<"1","4",":","0","0">>, <<"1","5",":","0","0">>, <<"1","6",":","0","0">>, <<"1","7",":","0","0">> >>]
    ELSE [Availability("pending") EXCEPT
             !.has_window = TRUE,
             !.start_time = start_time, !.end_time = end_time]

\* check_time_availability between the computation of the window and the
\* calendar call: the business-day and business-hours checks in the code's
\* order, against the function's own business_start = time(10, 0) and
\* business_end = time(18, 0).  verdict "pending" means that every check
\* passed and the calendar is asked next.
WindowCheck(target_date, start_time, end_time) ==
    IF Weekday(target_date) >= 5
    THEN [Availability("weekend") EXCEPT
             !.weekend_violation = TRUE,
             !.suggested_dates = get_next_business_days(target_date, 3)]
    ELSE IF TimeOfDay(start_time) < 10 * 60
    THEN [Availability("before_hours") EXCEPT
             !.business_hours_violation = TRUE,
             !.suggested_times = << <<"1","0",":","0","0">>, <<"1","1",":","0","0">>, <<"1","2",":","0","0">>, <<"1","4",":","0","0">> >>]
    ELSE IF TimeOfDay(start_time) >= 18 * 60
    THEN [Availability("after_hours") EXCEPT
             !.business_hours_violation = TRUE,
             !.suggested_times = << <<"1","4",":","0","0">>, <<"1","5",":","0","0">>, <<"1","6",":","0","0">>, <<"1","7",":","0","0">> >>]
    ELSE IF TimeOfDay(end_time) > 18 * 60
    THEN [Availability("end_overruns_hours") EXCEPT
             !.business_hours_violation = TRUE,
             !.suggested_times = << <<"1","0",":","0","0">>, <<"1","1",":","0","0">>, <<"1","4",":","0","0">>, <<"1","5",":","0","0">> >>]
    ELSE [Availability("pending") EXCEPT
             !.has_window = TRUE,
             !.start_time = start_time, !.end_time = end_time]

\* end_time = start_time + timedelta(minutes=duration_minutes): a TypeError
\* on anything but a number, caught by the function's except clause
WindowFrom(target_date, start_time, duration_minutes) ==
    IF duration_minutes.t # "int"
    THEN [Availability("error") EXCEPT !.has_error = TRUE]
    ELSE WindowCheck(target_date, start_time, start_time + duration_minutes.v)

\* variant of the start of the window: the minute is dropped
StartTimeOnTheHour(target_date, hm) == AtTime(target_date, hm[1], 0)

\* start_time = target_date.replace(hour=hour, minute=minute, ...)
StartTime(target_date, hm) == AtTime(target_date, hm[1], hm[2])

\* check_time_availability up to the calendar call
PolicyCheck(target_date, time_str, duration_minutes) ==
    WindowFrom(target_date, StartTime(target_date, parse_time(time_str)),
               duration_minutes)

\* the two returns after calendar_service.check_availability
AfterCalendarCheck(pending, is_free) ==
    IF is_free
    THEN [pending EXCEPT !.verdict = "available", !.available = TRUE]
    ELSE [pending EXCEPT !.verdict = "conflict", !.conflict = TRUE]

\* get_time_string(slot), is_morning_slot(slot), is_afternoon_slot(slot)
get_time_string(slot) == slot.start_time

SlotHour(slot) == ParseInt(Split(get_time_string(slot), ":")[1])

is_morning_slot(slot) == SlotHour(slot).ok /\ SlotHour(slot).v < 12
is_afternoon_slot(slot) == SlotHour(slot).ok /\ SlotHour(slot).v >= 12

\* get_available_slots_with_details(target_date), given the slots the
\* calendar service returned
SlotsData(target_date, slots) ==
    [date |-> target_date,
     slots |-> slots,
     total_slots |-> Len(slots),
     has_morning_slots |-> \E k \in 1..Len(slots) : is_morning_slot(slots[k]),
     has_afternoon_slots |-> \E k \in 1..Len(slots) : is_afternoon_slot(slots[k]),
     earliest_slot |-> IF slots = << >> THEN << >>
                       ELSE get_time_string(slots[1]),
     latest_slot |-> IF slots = << >> THEN << >>
                     ELSE get_time_string(slots[Len(slots)])]

\* one entry of suggest_alternative_dates
Alternative(check_date, slots) ==
    [date |-> check_date, slots_count |-> Len(slots),
     first_slot |-> slots[1].start_time]

\* ------------------------------------------------------------------------
\* ResponseBuilder (backend/agent/helpers/response_builder.py).  A response
\* dict is a record of every field a response can carry plus keys, the set
\* of the keys the dict really has; a field outside keys holds a filler.
\* A message built with an f-string is represented by its fixed part.
\* ------------------------------------------------------------------------
NoDetails ==
    [title |-> << >>, date |-> 0, start_time |-> << >>, end_time |-> << >>,
     duration_minutes |-> 0]

Response(keys, message) ==
    [keys |-> keys, response |-> message, action |-> "",
     success |-> FALSE, error |-> FALSE, has_error_details |-> FALSE,
     needs_clarification |-> FALSE, missing_info |-> {},
     appointment_created |-> FALSE, appointment_details |-> NoDetails,
     available_slots |-> << >>, date |-> 0,
     suggested_dates |-> << >>, suggested_times |-> << >>,
     original_date |-> 0, requested_time |-> Null]

build_error_response(message, has_error) ==
    [Response({"response", "success", "error"}
              \cup (IF has_error THEN {"error_details"} ELSE {}), message)
        EXCEPT !.success = FALSE, !.error = TRUE,
               !.has_error_details = has_error]

build_clarification_response(message, missing_info) ==
    [Response({"response", "needs_clarification", "missing_info"}, message)
        EXCEPT !.needs_clarification = TRUE, !.missing_info = missing_info]

build_appointment_confirmation(appointment_details) ==
    [Response({"response", "appointment_created", "appointment_details",
               "action"}, "Your appointment has been successfully booked")
        EXCEPT !.appointment_created = TRUE,
               !.appointment_details = appointment_details,
               !.action = "appointment_confirmed"]

build_availability_response(slots_data) ==
    IF slots_data.total_slots = 0
    THEN [Response({"response", "available_slots", "action"},
                   "No available slots found")
             EXCEPT !.action = "no_availability"]
    ELSE [Response({"response", "available_slots", "date", "action",
                    "slot_summary"}, "Available slots")
             EXCEPT !.available_slots = slots_data.slots,
                    !.date = slots_data.date,
                    !.action = "show_slots"]

build_alternatives_response(alternatives, original_date) ==
    IF alternatives = << >>
    THEN build_error_response(
             "Unfortunately, I couldn't find any available slots in the next week",
             FALSE)
    ELSE [Response({"response", "suggested_dates", "original_date", "action"},
                   "Here are some alternative dates with availability")
             EXCEPT !.suggested_dates = alternatives,
                    !.original_date = original_date,
                    !.action = "choose_alternative_date"]

build_help_response ==
    [Response({"response", "action", "available_commands"},
              "Hello! I'm your AI Appointment Assistant")
        EXCEPT !.action = "general_help"]

build_time_conflict_response(requested_time, alternatives) ==
    [Response({"response", "requested_time", "available_slots", "action"},
              "Unfortunately, the requested time is not available")
        EXCEPT !.requested_time = requested_time,
               !.available_slots = SubSeq(alternatives, 1, Min(3, Len(alternatives))),
               !.action = "show_alternatives"]

build_business_hours_error(requested_time, suggested_times) ==
    [Response({"response", "action", "suggested_times", "business_hours",
               "success", "error"}, "Sorry, that time is outside our business hours")
        EXCEPT !.action = "business_hours_violation",
               !.suggested_times = suggested_times,
               !.success = FALSE, !.error = TRUE]

build_weekend_error(requested_date, day_name, suggested_dates) ==
    [Response({"response", "action", "suggested_dates", "business_days",
               "success", "error"}, "Sorry, we don't operate on that day")
        EXCEPT !.action = "weekend_violation",
               !.suggested_dates = suggested_dates,
               !.success = FALSE, !.error = TRUE]

\* AIAssistant._handle_cancellation
handle_cancellation ==
    [Response({"response", "action", "help_text"},
              "Appointment cancellation feature is coming soon")
        EXCEPT !.action = "cancellation_not_available"]

\* ------------------------------------------------------------------------
\* State
\* ------------------------------------------------------------------------
VARIABLES
    calendar,       \* the events of the shared calendar (the backend's state)
    is_available,   \* CalendarService.is_available, fixed at construction
    faults,         \* backend calls that have raised so far
    served,         \* requests received so far
    req,            \* per coordinator invocation: position and locals
    verified,       \* history: <<p, q>> when p passed its pre-write re-check
                    \* while q had passed its own on an overlapping window
                    \* and had not written yet
    resolved,       \* the last direct call of the Availability Resolver
    direct          \* the last direct call of another function of the
                    \* engine: its arguments and what it returned

vars ==
    << calendar, is_available, faults, served, req, verified, resolved, direct >>

\* coordinator invocations that can be in flight
Procs == {1, 2}

\* bounds of the model
MaxFaults == 1
MaxRequests == 2

NoIntent == [k \in {} |-> Null]
NoSlotsData == SlotsData(0, << >>)

\* no direct call of the resolver yet
NoResolved ==
    [called |-> FALSE, ok |-> FALSE, day |-> 0, duration_hours |-> 0,
     slots |-> << >>]

\* no direct call of another function yet
NoDirect == [op |-> "none"]

\* a coordinator invocation before process_message is called
IdleReq ==
    [pc |-> "idle", handler |-> "none", intent_data |-> NoIntent,
     target_date |-> 0, via |-> "none", parse_date_calls |-> 0,
     slots_data |-> NoSlotsData, availability |-> Availability("none"),
     alternatives |-> << >>, i |-> 0, max_suggestions |-> 3,
     log |-> << >>, response |-> Response({}, ""), escaped |-> FALSE]

\* a finished process_message call with its return value
Return(r, response) == [r EXCEPT !.pc = "done", !.response = response]

\* outcomes of one backend call: TRUE = the call went through; a call can
\* raise while the fault budget lasts; no call is made when the service is
\* not available
CallOutcomes ==
    IF ~is_available THEN {FALSE}
    ELSE IF faults < MaxFaults THEN {TRUE, FALSE} ELSE {TRUE}

CountFault(ok) ==
    faults' = IF is_available /\ ~ok THEN faults + 1 ELSE faults

Call(op, start, end, result) ==
    [op |-> op, start |-> start, end |-> end, result |-> result]

\* variant of check_availability: only the events that start inside the
\* window count as conflicts
check_availability_by_start(cal, ok, start_time, end_time) ==
    ok /\ \A e \in cal : ~(start_time <= e.start /\ e.start < end_time)

\* CalendarService.check_availability(start_time, end_time)
check_availability(cal, ok, start_time, end_time) ==
    ok /\ EventsList(cal, start_time, end_time) = << >>

\* ------------------------------------------------------------------------
\* AIAssistant.process_message: routing on the extracted intent, up to the
\* first backend call
\* ------------------------------------------------------------------------
\* an exception leaving a function: the invocation is unwinding
Raise(r) == [r EXCEPT !.pc = "raised"]

\* variant of _handle_booking: the missing-date guard is absent and the
\* date goes to parse_date whatever it is
BookingBodyUnguarded(r) ==
    IF parse_date(Get(r.intent_data, "date", Null)).raised
    THEN Raise([r EXCEPT !.parse_date_calls = 1])
    ELSE [r EXCEPT !.pc = "list", !.handler = "booking",
                   !.parse_date_calls = 1,
                   !.target_date = parse_date(Get(r.intent_data, "date", Null)).day,
                   !.via = parse_date(Get(r.intent_data, "date", Null)).via]

\* _handle_booking up to get_available_slots_with_details, without its
\* except clause
BookingBody(r) ==
    LET date == Get(r.intent_data, "date", Null)
        parsed == parse_date(date)
    IN  IF ~Truthy(date)
        THEN Return(r, build_clarification_response(
                           "I'd be happy to help you book an appointment! When would you like to schedule it? For example: 'tomorrow at 2 PM' or 'next Monday morning'",
                           {"date"}))
        ELSE IF parsed.raised
        THEN Raise([r EXCEPT !.parse_date_calls = 1])
        ELSE [r EXCEPT !.pc = "list", !.handler = "booking",
                       !.parse_date_calls = 1,
                       !.target_date = parsed.day, !.via = parsed.via]

\* _handle_availability up to get_available_slots_with_details; parse_date
\* is called outside any try block of the handler
BeginAvailability(r) ==
    LET date_str == Get(r.intent_data, "date", Str(<<"t","o","m","o","r","r","o","w">>))
        parsed == parse_date(date_str)
    IN  IF parsed.raised
        THEN Raise([r EXCEPT !.parse_date_calls = 1])
        ELSE [r EXCEPT !.pc = "list", !.handler = "availability",
                       !.parse_date_calls = 1,
                       !.target_date = parsed.day, !.via = parsed.via]

\* the except clause of _handle_booking
CatchInBooking(r) ==
    IF r.pc = "raised"
    THEN Return(r, build_error_response(
                       "I encountered an issue while checking availability. Could you please try rephrasing your request?",
                       TRUE))
    ELSE r

\* variant of process_message: no except clause
CatchNothing(r) == r

\* the except clause of process_message
CatchInProcessMessage(r) ==
    IF r.pc = "raised"
    THEN Return(r, build_error_response(
                       "I apologize, but I encountered an error. Please try again.",
                       TRUE))
    ELSE r

\* an exception that no except clause caught reaches the caller
Unwind(r) ==
    IF r.pc = "raised" THEN [r EXCEPT !.pc = "done", !.escaped = TRUE] ELSE r

BeginBooking(r) == CatchInBooking(BookingBody(r))

Route(r) ==
    LET intent == r.intent_data["intent"]
    IN  IF intent = Str(<<"b","o","o","k","_","a","p","p","o","i","n","t","m","e","n","t">>)
        THEN BeginBooking(r)
        ELSE IF intent = Str(<<"c","h","e","c","k","_","a","v","a","i","l","a","b","i","l","i","t","y">>)
        THEN BeginAvailability(r)
        ELSE IF intent = Str(<<"c","a","n","c","e","l","_","a","p","p","o","i","n","t","m","e","n","t">>)
        THEN Return(r, handle_cancellation)
        ELSE Return(r, build_help_response)

process_message(r, user_message, reply) ==
    Unwind(CatchInProcessMessage(
        Route([r EXCEPT !.intent_data = extract_intent(user_message, reply)])))

\* ------------------------------------------------------------------------
\* The steps of a request between two backend calls
\* ------------------------------------------------------------------------
Logged(r, call) ==
    IF is_available THEN [r EXCEPT !.log = Append(@, call)] ELSE r

\* str(n) for n >= 0, as an f-string renders a number
RECURSIVE IntText(_)
IntText(n) ==
    IF n < 10 THEN << DigitChar(n) >>
    ELSE IntText(n \div 10) \o << DigitChar(n % 10) >>

\* an f-string's rendering of a JSON value
Text(x) ==
    CASE x.t = "str" -> x.v
      [] x.t = "null" -> <<"N","o","n","e">>
      [] x.t = "int" -> IF x.v < 0 THEN << "-" >> \o IntText(0 - x.v)
                        ELSE IntText(x.v)

\* the else branch of _book_specific_time
NotAvailable(r) ==
    IF r.availability.business_hours_violation
    THEN Return(r, build_business_hours_error(
                       Get(r.intent_data, "time", Null),
                       r.availability.suggested_times))
    ELSE IF r.availability.weekend_violation
    THEN Return(r, build_weekend_error(r.target_date, Weekday(r.target_date),
                                       r.availability.suggested_dates))
    ELSE [r EXCEPT !.pc = "relist"]

\* _book_specific_time after the policy part of check_time_availability
AfterPolicy(r) ==
    IF r.availability.verdict = "pending" THEN [r EXCEPT !.pc = "check"]
    ELSE NotAvailable(r)

\* _book_specific_time up to the calendar call of check_time_availability
BookSpecificTime(r) ==
    AfterPolicy([r EXCEPT !.availability =
        PolicyCheck(r.target_date,
                    Get(r.intent_data, "time", Str(<<"1","4",":","0","0">>)),
                    Get(r.intent_data, "duration_minutes", Num(60)))])

\* variant of _handle_booking: the time is looked at before the number of
\* slots
AfterSlotsDataTimeFirst(r) ==
    IF r.handler = "booking" /\ Truthy(Get(r.intent_data, "time", Null))
    THEN BookSpecificTime(r)
    ELSE IF r.slots_data.total_slots = 0
    THEN [r EXCEPT !.pc = "probe", !.i = 0, !.alternatives = << >>]
    ELSE Return(r, build_availability_response(r.slots_data))

\* _handle_booking and _handle_availability after
\* get_available_slots_with_details returned slots_data
AfterSlotsData(r) ==
    IF r.slots_data.total_slots = 0
    THEN [r EXCEPT !.pc = "probe", !.i = 0, !.alternatives = << >>]
    ELSE IF r.handler = "booking" /\ Truthy(Get(r.intent_data, "time", Null))
    THEN BookSpecificTime(r)
    ELSE Return(r, build_availability_response(r.slots_data))

AfterList(r, slots) ==
    AfterSlotsData([r EXCEPT !.slots_data = SlotsData(r.target_date, slots)])

\* variant of create_appointment_with_validation: the result of the
\* re-check is ignored and the write goes ahead
RecheckIgnored(r) == [r EXCEPT !.pc = "create"]

\* create_appointment_with_validation when the re-check fails
RecheckFailed(r) ==
    Return(r, build_error_response(
                  "Someone else may have booked this time. Please choose another slot.",
                  FALSE))

\* the title _book_specific_time gives the appointment
AppointmentTitle(intent_data) ==
    <<"A","I"," ","S","c","h","e","d","u","l","e","d"," ","-"," ">>
        \o Text(Get(intent_data, "appointment_type", Str(<<"A","p","p","o","i","n","t","m","e","n","t">>)))

\* the event create_event inserts
NewEvent(p, r) ==
    [start |-> r.availability.start_time, end |-> r.availability.end_time,
     by |-> p, summary |-> AppointmentTitle(r.intent_data)]

\* appointment_details of create_appointment_with_validation
AppointmentDetails(title, start_time, end_time) ==
    [title |-> title, date |-> DayOf(start_time),
     start_time |-> FormatHM(start_time), end_time |-> FormatHM(end_time),
     duration_minutes |-> end_time - start_time]

\* _book_specific_time after create_appointment_with_validation returned
AfterCreate(p, r, ok) ==
    IF ok
    THEN Return(r, build_appointment_confirmation(
                       AppointmentDetails(AppointmentTitle(r.intent_data),
                                          r.availability.start_time,
                                          r.availability.end_time)))
    ELSE Return(r, build_error_response("Failed to create appointment", FALSE))

\* suggest_alternative_dates: one iteration of the loop, after
\* get_available_slots(check_date) returned; when the loop ends, the
\* handler that called it builds its response (a direct call, handler
\* "suggest", just returns the list)
AfterProbe(r, check_date, slots) ==
    LET alternatives ==
            IF slots # << >>
            THEN Append(r.alternatives, Alternative(check_date, slots))
            ELSE r.alternatives
        r1 == [r EXCEPT !.alternatives = alternatives, !.i = r.i + 1]
    IN  IF (slots # << >> /\ Len(alternatives) >= r.max_suggestions)
           \/ r.i + 1 >= 7
        THEN IF r.handler = "suggest" THEN [r1 EXCEPT !.pc = "done"]
             ELSE Return(r1, build_alternatives_response(alternatives,
                                                         r.target_date))
        ELSE r1

\* ------------------------------------------------------------------------
\* Actions
\* ------------------------------------------------------------------------
Step(p, r) == req' = [req EXCEPT ![p] = r]

DayStart(day) == AtTime(day, BUSINESS_START_HOUR, 0)
DayEnd(day) == AtTime(day, BUSINESS_END_HOUR, 0)

\* get_available_slots_with_details(target_date)
ListSlots(p) ==
    /\ req[p].pc = "list"
    /\ \E ok \in CallOutcomes :
         LET day == req[p].target_date
             r == Logged(req[p], Call("list", DayStart(day), DayEnd(day), ok))
         IN  /\ Step(p, AfterList(r, get_available_slots(calendar, ok, day, 1)))
             /\ CountFault(ok)
    /\ UNCHANGED << calendar, is_available, served, verified, resolved, direct >>

\* the calendar call of check_time_availability
CheckTime(p) ==
    /\ req[p].pc = "check"
    /\ \E ok \in CallOutcomes :
         LET a == req[p].availability
             is_free == check_availability(calendar, ok, a.start_time, a.end_time)
             r == Logged(req[p], Call("check", a.start_time, a.end_time, is_free))
             r1 == [r EXCEPT !.availability = AfterCalendarCheck(a, is_free)]
         IN  /\ Step(p, IF is_free THEN [r1 EXCEPT !.pc = "recheck"]
                        ELSE NotAvailable(r1))
             /\ CountFault(ok)
    /\ UNCHANGED << calendar, is_available, served, verified, resolved, direct >>

\* the invocations that have passed their re-check on a window overlapping
\* [start_time, end_time) and have not issued their create call yet
AboutToWrite(p, start_time, end_time) ==
    { q \in Procs \ {p} :
        /\ req[q].pc = "create"
        /\ req[q].availability.start_time < end_time
        /\ req[q].availability.end_time > start_time }

\* create_appointment_with_validation: the double check before creating
Recheck(p) ==
    /\ req[p].pc = "recheck"
    /\ \E ok \in CallOutcomes :
         LET a == req[p].availability
             is_free == check_availability(calendar, ok, a.start_time, a.end_time)
             r == Logged(req[p], Call("check", a.start_time, a.end_time, is_free))
         IN  /\ Step(p, IF is_free THEN [r EXCEPT !.pc = "create"]
                        ELSE RecheckFailed(r))
             /\ verified' =
                    IF is_free
                    THEN verified \cup
                         { << p, q >> : q \in AboutToWrite(p, a.start_time, a.end_time) }
                    ELSE verified
             /\ CountFault(ok)
    /\ UNCHANGED << calendar, is_available, served, resolved, direct >>

\* variant of create_event: an insert that raised has still been stored
create_event_stored_on_failure(cal, ok, event) ==
    [success |-> ok, calendar |-> cal \cup {event}]

\* variant of create_event: an insert that the backend refuses when the
\* window is taken (a conditional write)
create_event_if_free(cal, ok, event) ==
    IF ok /\ \A e \in cal : ~Overlaps(e, event.start, event.end)
    THEN [success |-> TRUE, calendar |-> cal \cup {event}]
    ELSE [success |-> FALSE, calendar |-> cal]

\* CalendarService.create_event: the calendar after the call and whether it
\* reported success; the insert is unconditional
create_event(cal, ok, event) ==
    IF ok THEN [success |-> TRUE, calendar |-> cal \cup {event}]
    ELSE [success |-> FALSE, calendar |-> cal]

\* create_appointment_with_validation: calendar_service.create_event
CreateEvent(p) ==
    /\ req[p].pc = "create"
    /\ \E ok \in CallOutcomes :
         LET a == req[p].availability
             result == create_event(calendar, ok, NewEvent(p, req[p]))
             r == Logged(req[p], Call("create", a.start_time, a.end_time,
                                      result.success))
         IN  /\ Step(p, AfterCreate(p, r, result.success))
             /\ calendar' = result.calendar
             /\ CountFault(ok)
    /\ UNCHANGED << is_available, served, verified, resolved, direct >>

\* the second get_available_slots_with_details of _book_specific_time
Relist(p) ==
    /\ req[p].pc = "relist"
    /\ \E ok \in CallOutcomes :
         LET day == req[p].target_date
             r == Logged(req[p], Call("list", DayStart(day), DayEnd(day), ok))
             slots_data == SlotsData(day, get_available_slots(calendar, ok, day, 1))
         IN  /\ Step(p, Return(r, build_time_conflict_response(
                                      Get(r.intent_data, "time", Null),
                                      SubSeq(slots_data.slots, 1,
                                             Min(3, Len(slots_data.slots))))))
             /\ CountFault(ok)
    /\ UNCHANGED << calendar, is_available, served, verified, resolved, direct >>

\* suggest_alternative_dates: get_available_slots(check_date) of iteration i
Probe(p) ==
    /\ req[p].pc = "probe"
    /\ \E ok \in CallOutcomes :
         LET check_date == req[p].target_date + 1 + req[p].i
             r == Logged(req[p], Call("list", DayStart(check_date),
                                      DayEnd(check_date), ok))
         IN  /\ Step(p, AfterProbe(r, check_date,
                                   get_available_slots(calendar, ok, check_date, 1)))
             /\ CountFault(ok)
    /\ UNCHANGED << calendar, is_available, served, verified, resolved, direct >>

\* the caller takes the response; the invocation's locals are gone
Deliver(p) ==
    /\ req[p].pc = "done"
    /\ Step(p, IdleReq)
    /\ UNCHANGED << calendar, is_available, faults, served, verified, resolved, direct >>

\* ------------------------------------------------------------------------
\* Inputs: calendars, user messages and completion-service replies
\* ------------------------------------------------------------------------
Fri == ToOrdinal(2025, 1, 3)

Busy(day, h1, m1, h2, m2) ==
    [start |-> AtTime(day, h1, m1), end |-> AtTime(day, h2, m2),
     by |-> 0, summary |-> <<"b","u","s","y">>]

EvEarly == Busy(Fri, 9, 0, 10, 30)
EvLate == Busy(Fri, 17, 30, 19, 0)
EvNoon == Busy(Fri, 11, 0, 12, 0)
EvLunch == Busy(Fri, 11, 30, 13, 0)
EvTwo == Busy(Fri, 14, 0, 15, 0)
EvFriday == Busy(Fri, 10, 0, 18, 0)
EvFortnight == Busy(Fri, 0, 0, 24 * 14, 0)

InitialCalendars ==
    { {}, {EvNoon}, {EvTwo}, {EvEarly, EvNoon, EvLunch},
      {EvNoon, EvTwo, EvLate}, {EvEarly, EvLate}, {EvFriday}, {EvFortnight} }

Messages ==
    { <<"B","o","o","k"," ","a","p","p","o","i","n","t","m","e","n","t"," ","t","o","m","o","r","r","o","w"," ","a","t"," ","2"," ","P","M">>,
      <<"b","o","o","k"," ","m","o","n","d","a","y"," ","a","t"," ","1","2","p","m">>,
      <<"s","c","h","e","d","u","l","e"," ","s","o","m","e","t","h","i","n","g">>,
      <<"S","h","o","w"," ","m","e"," ","a","v","a","i","l","a","b","l","e"," ","s","l","o","t","s"," ","f","o","r"," ","t","o","m","o","r","r","o","w">>,
      <<"i","s"," ","f","r","i","d","a","y"," ","f","r","e","e">>,
      <<"c","a","n","c","e","l"," ","m","y"," ","m","e","e","t","i","n","g">>,
      <<"h","e","l","l","o">> }

FailingReplies ==
    { [kind |-> "raise"], [kind |-> "status"], [kind |-> "malformed"],
      [kind |-> "content", open |-> -1, close |-> -1,
       parse_ok |-> FALSE, parsed |-> NoIntent],
      [kind |-> "content", open |-> 0, close |-> 5,
       parse_ok |-> FALSE, parsed |-> NoIntent],
      [kind |-> "content", open |-> 0, close |-> 1,
       parse_ok |-> TRUE, parsed |-> NoIntent],
      [kind |-> "content", open |-> 0, close |-> 9,
       parse_ok |-> TRUE, parsed |-> [k \in {"date"} |-> Null]] }

Content(obj) ==
    [kind |-> "content", open |-> 4, close |-> 90,
     parse_ok |-> TRUE, parsed |-> obj]

ObjDates ==
    { Null, Str(<< >>), Str(<<"2","0","2","5","-","0","1","-","0","3">>), Str(<<"2","0","2","5","-","0","1","-","0","4">>),
      Str(<<"2","0","2","5","-","0","1","-","0","6">>), Str(<<"2","0","2","5","-","1","3","-","0","1">>), Str(<<"n","e","x","t"," ","m","o","n","d","a","y">>), Num(5) }

ObjTimes ==
    { Null, Str(<<"1","4",":","0","0">>), Str(<<"0","9",":","0","0">>), Str(<<"1","7",":","3","0">>), Str(<<"1","8",":","0","0">>),
      Str(<<"2","5",":","3","0">>) }

ObjDurations == { Num(60), Num(30), Num(120), Num(1020), Null }

\* the intent object without its duration_minutes key
WithoutDuration(obj) ==
    [k \in DOMAIN obj \ {"duration_minutes"} |-> obj[k]]

BookingObjects ==
    LET full == { IntentDict(Str(<<"b","o","o","k","_","a","p","p","o","i","n","t","m","e","n","t">>), d, t, n,
                             Str(<<"m","e","e","t","i","n","g">>), Str(<<"h","i","g","h">>)) :
                  d \in ObjDates, t \in ObjTimes, n \in ObjDurations }
    IN  full \cup { WithoutDuration(o) : o \in { f \in full :
                        f["duration_minutes"] = Num(60) } }

OtherObjects ==
    { IntentDict(Str(<<"c","h","e","c","k","_","a","v","a","i","l","a","b","i","l","i","t","y">>), d, Null, Num(60), Null, Str(<<"h","i","g","h">>)) :
        d \in ObjDates }
    \cup { [k \in {"intent"} |-> Str(<<"c","h","e","c","k","_","a","v","a","i","l","a","b","i","l","i","t","y">>)] }
    \cup { IntentDict(i, Null, Null, Num(60), Null, Str(<<"h","i","g","h">>)) :
             i \in { Str(<<"c","a","n","c","e","l","_","a","p","p","o","i","n","t","m","e","n","t">>), Str(<<"g","e","n","e","r","a","l","_","q","u","e","r","y">>),
                     Str(<<"r","e","s","c","h","e","d","u","l","e">>), Null } }

Inputs ==
    (Messages \X FailingReplies)
    \cup ({<<"h","e","l","l","o">>} \X { Content(o) : o \in BookingObjects \cup OtherObjects })

\* ------------------------------------------------------------------------
\* Specification: requests served one at a time by one coordinator
\* ------------------------------------------------------------------------
Init ==
    /\ calendar \in InitialCalendars
    /\ is_available \in BOOLEAN
    /\ faults = 0
    /\ served = 0
    /\ req = [p \in Procs |-> IdleReq]
    /\ verified = {}
    /\ resolved = NoResolved
    /\ direct = NoDirect

\* process_message(user_message) up to its first backend call
Start(p) ==
    /\ req[p].pc = "idle"
    /\ \A q \in Procs : req[q].pc = "idle"
    /\ served < MaxRequests
    /\ \E in \in Inputs : Step(p, process_message(req[p], in[1], in[2]))
    /\ served' = served + 1
    /\ UNCHANGED << calendar, is_available, faults, verified, resolved, direct >>

Next ==
    \E p \in {1} :
        \/ Start(p)
        \/ ListSlots(p)
        \/ CheckTime(p)
        \/ Recheck(p)
        \/ CreateEvent(p)
        \/ Relist(p)
        \/ Probe(p)
        \/ Deliver(p)

Spec == Init /\ [][Next]_vars

\* ------------------------------------------------------------------------
\* Specification: two coordinator invocations interleaved on one calendar
\* (the engine replicated, section 5 of the design): every backend call is
\* one step, and nothing is held between a step and the next
\* ------------------------------------------------------------------------
RaceObjects ==
    { IntentDict(Str(<<"b","o","o","k","_","a","p","p","o","i","n","t","m","e","n","t">>), Str(<<"2","0","2","5","-","0","1","-","0","3">>), t, n,
                 Str(<<"m","e","e","t","i","n","g">>), Str(<<"h","i","g","h">>)) :
        t \in { Str(<<"1","4",":","0","0">>), Str(<<"1","4",":","3","0">>), Str(<<"1","7",":","3","0">>) },
        n \in { Num(60), Num(30) } }

RaceInputs ==
    { << <<"B","o","o","k"," ","a","p","p","o","i","n","t","m","e","n","t"," ","t","o","m","o","r","r","o","w"," ","a","t"," ","2"," ","P","M">>, [kind |-> "raise"] >> }
    \cup ({<<"h","e","l","l","o">>} \X { Content(o) : o \in RaceObjects })

InitRace ==
    /\ calendar \in { {}, {EvNoon}, {EvTwo} }
    /\ is_available = TRUE
    /\ faults = 0
    /\ served = 0
    /\ req = [p \in Procs |-> IdleReq]
    /\ verified = {}
    /\ resolved = NoResolved
    /\ direct = NoDirect

StartRace(p) ==
    /\ req[p].pc = "idle"
    /\ \E in \in RaceInputs : Step(p, process_message(req[p], in[1], in[2]))
    /\ served' = served + 1
    /\ UNCHANGED << calendar, is_available, faults, verified, resolved, direct >>

NextRace ==
    \E p \in Procs :
        \/ StartRace(p)
        \/ ListSlots(p)
        \/ CheckTime(p)
        \/ Recheck(p)
        \/ CreateEvent(p)
        \/ Relist(p)
        \/ Probe(p)

SpecRace == InitRace /\ [][NextRace]_vars

\* ------------------------------------------------------------------------
\* Specification: the Availability Resolver called directly on calendars
\* of arbitrary busy intervals of one day
\* ------------------------------------------------------------------------
MaxBusy == 3
MaxDurationHours == 2

GridTimes ==
    { AtTime(Fri, 9, 0), AtTime(Fri, 10, 0), AtTime(Fri, 10, 30),
      AtTime(Fri, 11, 30), AtTime(Fri, 12, 0), AtTime(Fri, 17, 0),
      AtTime(Fri, 17, 30), AtTime(Fri, 18, 0), AtTime(Fri, 19, 0) }

GridIntervals ==
    { [start |-> w[1], end |-> w[2], by |-> 0, summary |-> <<"b","u","s","y">>] :
        w \in { v \in GridTimes \X GridTimes : v[1] < v[2] } }

RECURSIVE BusySets(_)
BusySets(n) ==
    IF n = 0 THEN { {} }
    ELSE LET smaller == BusySets(n - 1)
         IN  smaller \cup { S \cup {e} : S \in smaller, e \in GridIntervals }

InitSlots ==
    /\ calendar \in BusySets(MaxBusy)
    /\ is_available = TRUE
    /\ faults = 0
    /\ served = 0
    /\ req = [p \in Procs |-> IdleReq]
    /\ verified = {}
    /\ resolved = NoResolved
    /\ direct = NoDirect

\* calendar_service.get_available_slots(date, duration_hours)
Resolve ==
    /\ \E ok \in CallOutcomes, duration_hours \in 1..MaxDurationHours :
         /\ resolved' = [called |-> TRUE, ok |-> ok, day |-> Fri,
                         duration_hours |-> duration_hours,
                         slots |-> get_available_slots(calendar, ok, Fri,
                                                       duration_hours)]
         /\ CountFault(ok)
    /\ UNCHANGED << calendar, is_available, served, req, verified, direct >>

NextSlots == Resolve

SpecSlots == InitSlots /\ [][NextSlots]_vars

\* ------------------------------------------------------------------------
\* Specification: SlotManager._get_next_business_days called directly on
\* start dates of every weekday and on counts up to more than the business
\* days of two weeks
\* ------------------------------------------------------------------------
MaxDayOffset == 13
MaxCount == 11

InitDays ==
    /\ calendar = {}
    /\ is_available = TRUE
    /\ faults = 0
    /\ served = 0
    /\ req = [p \in Procs |-> IdleReq]
    /\ verified = {}
    /\ resolved = NoResolved
    /\ direct = NoDirect

\* SlotManager._get_next_business_days(start_date, count)
NextBusinessDays ==
    /\ \E offset \in 0..MaxDayOffset, count \in 0..MaxCount :
         direct' = [op |-> "get_next_business_days",
                    start_date |-> Today + offset, count |-> count,
                    result |-> get_next_business_days(Today + offset, count)]
    /\ UNCHANGED << calendar, is_available, faults, served, req, verified,
                    resolved >>

NextDays == NextBusinessDays

SpecDays == InitDays /\ [][NextDays]_vars

\* ------------------------------------------------------------------------
\* Specification: SlotManager.suggest_alternative_dates called directly,
\* with every cap up to MaxCap, on calendars in which any of the seven days
\* after today can be fully booked
\* ------------------------------------------------------------------------
MaxCap == 4

InitSuggest ==
    /\ calendar \in SUBSET { Busy(Today + k, BUSINESS_START_HOUR, 0,
                                  BUSINESS_END_HOUR, 0) : k \in 1..7 }
    /\ is_available = TRUE
    /\ faults = 0
    /\ served = 0
    /\ req = [p \in Procs |-> IdleReq]
    /\ verified = {}
    /\ resolved = NoResolved
    /\ direct = NoDirect

\* suggest_alternative_dates(original_date, max_suggestions) up to the
\* first get_available_slots call
Suggest(p) ==
    /\ req[p].pc = "idle"
    /\ served = 0
    /\ \E original_date \in {Today, Today + 1}, max_suggestions \in 0..MaxCap :
         Step(p, [IdleReq EXCEPT !.pc = "probe", !.handler = "suggest",
                                 !.target_date = original_date,
                                 !.max_suggestions = max_suggestions])
    /\ served' = served + 1
    /\ UNCHANGED << calendar, is_available, faults, verified, resolved, direct >>

NextSuggest == \E p \in {1} : Suggest(p) \/ Probe(p)

SpecSuggest == InitSuggest /\ [][NextSuggest]_vars

\* ------------------------------------------------------------------------
\* Specification: AIAssistant._extract_intent called directly, with every
\* message and every reply of the completion service of Inputs, and with
\* two more replies whose text holds a parsable object but no '{'...'}'
\* block in the right order: a '{' without a later '}', and a '}' before
\* the only '{'
\* ------------------------------------------------------------------------
ExtractIntent ==
    /\ \E in \in Inputs \cup
                 (Messages \X
                    { [kind |-> "content", open |-> 3, close |-> -1,
                       parse_ok |-> TRUE,
                       parsed |-> [k \in {"intent"} |-> Str(<<"g","e","n","e","r","a","l","_","q","u","e","r","y">>)]],
                      [kind |-> "content", open |-> 5, close |-> 2,
                       parse_ok |-> TRUE,
                       parsed |-> [k \in {"intent"} |-> Str(<<"g","e","n","e","r","a","l","_","q","u","e","r","y">>)]] }) :
         direct' = [op |-> "extract_intent",
                    user_message |-> in[1], reply |-> in[2],
                    result |-> extract_intent(in[1], in[2])]
    /\ UNCHANGED << calendar, is_available, faults, served, req, verified,
                    resolved >>

SpecIntent == InitDays /\ [][ExtractIntent]_vars

\* ------------------------------------------------------------------------
\* Specification: direct calls of AIAssistant._simple_intent_fallback,
\* DateParser.parse_date and DateParser.parse_time.  The messages are one
\* or two words of a vocabulary that holds every keyword of the classifier
\* in some spelling, the date words, and time expressions of which some
\* contain a time token of the fallback inside a longer one; the dates and
\* times are the values the completion service can put into the intent
\* JSON, well-formed or not
\* ------------------------------------------------------------------------
FallbackCall ==
    /\ \E w1, w2 \in
             { <<"b","o","o","k">>, <<"S","c","h","e","d","u","l","e">>, <<"a","p","p","o","i","n","t","m","e","n","t">>, <<"c","r","e","a","t","e">>, <<"M","A","K","E">>,
               <<"a","v","a","i","l","a","b","l","e">>, <<"f","r","e","e">>, <<"s","l","o","t","s">>, <<"S","h","o","w">>, <<"c","h","e","c","k">>,
               <<"c","a","n","c","e","l">>, <<"D","e","l","e","t","e">>, <<"r","e","m","o","v","e">>, <<"h","e","l","l","o">>, <<"p","l","e","a","s","e">>,
               <<"t","o","m","o","r","r","o","w">>, <<"m","o","n","d","a","y">>, <<"2","p","m">>, <<"2"," ","P","M">>, <<"1","2","p","m">>, <<"1","2"," ","p","m">>,
               <<"1","0","a","m">>, <<"9","a","m">>, <<"1","9","a","m">>, << >> } :
         LET message == IF w2 = << >> THEN w1 ELSE w1 \o << " " >> \o w2
         IN  direct' = [op |-> "simple_intent_fallback",
                        message |-> message,
                        result |-> simple_intent_fallback(message)]
    /\ UNCHANGED << calendar, is_available, faults, served, req, verified,
                    resolved >>

ParseDateCall ==
    /\ LET dates ==
               << Null, Num(0), Num(5), Str(<< >>), Str(<<" "," "," ">>),
                  Str(<<"2","0","2","5","-","0","1","-","0","6">>), Str(<<" ","2","0","2","5","-","0","1","-","0","6"," ">>), Str(<<"2","0","2","4","-","0","2","-","2","9">>),
                  Str(<<"2","0","2","5","-","1","3","-","0","1">>), Str(<<"2","0","2","5","-","0","2","-","3","0">>), Str(<<"a","b","-","c","d","-","e","f","g","h">>),
                  Str(<<"2","0","2","5","/","0","1","/","0","6">>), Str(<<"t","o","d","a","y">>), Str(<<"T","O","D","A","Y">>),
                  Str(<<"T","o","m","o","r","r","o","w">>), Str(<<"d","a","y"," ","a","f","t","e","r"," ","t","o","m","o","r","r","o","w">>),
                  Str(<<"o","v","e","r","m","o","r","r","o","w">>), Str(<<"m","o","n","d","a","y">>), Str(<<"n","e","x","t"," ","m","o","n","d","a","y">>),
                  Str(<<"f","r","i","d","a","y">>), Str(<<"s","u","n","d","a","y">>), Str(<<"n","e","x","t"," ","w","e","e","k">>),
                  Str(<<"a","s","a","p">>) >>
       IN  \E k \in DOMAIN dates :
               direct' = [op |-> "parse_date", date_string |-> dates[k],
                          result |-> parse_date(dates[k])]
    /\ UNCHANGED << calendar, is_available, faults, served, req, verified,
                    resolved >>

ParseTimeCall ==
    /\ LET times ==
               << Null, Num(14), Str(<< >>), Str(<<"1","4",":","0","0">>), Str(<<"9",":","0","5">>),
                  Str(<<"2","5",":","3","0">>), Str(<<"1","1",":","7","5">>), Str(<<"9","9",":","9","9">>), Str(<<"-","1",":","3","0">>),
                  Str(<<"1","4",":">>), Str(<<":","3","0">>), Str(<<"a","b",":","c","d">>), Str(<<"1","4",":","3","0",":","0","0">>),
                  Str(<<" ","1","0"," ",":"," ","1","5"," ">>), Str(<<"2","p","m">>), Str(<<"2"," ","P","M">>), Str(<<"1","2","p","m">>),
                  Str(<<"1","2","a","m">>), Str(<<"1","3","p","m">>), Str(<<"9","a","m">>), Str(<<"n","o","o","n">>),
                  Str(<<"1","7">>), Str(<<"2","4">>), Str(<<"-","1">>) >>
       IN  \E k \in DOMAIN times :
               direct' = [op |-> "parse_time", time_str |-> times[k],
                          result |-> parse_time(times[k])]
    /\ UNCHANGED << calendar, is_available, faults, served, req, verified,
                    resolved >>

SpecCalls == InitDays /\ [][FallbackCall \/ ParseDateCall \/ ParseTimeCall]_vars

\* ------------------------------------------------------------------------
\* Properties
\* ------------------------------------------------------------------------
\* the positions of the create_event calls in a request's backend log
Creates(log) == { k \in 1..Len(log) : log[k].op = "create" }

Booked(r) == r.pc = "done" /\ r.response.action = "appointment_confirmed"

\* the first list and the first check of the window went through and found
\* it free, and the re-check before the write found it taken
FreeThenTaken(r) ==
    /\ Len(r.log) >= 3
    /\ r.log[1].op = "list" /\ r.log[1].result
    /\ r.log[2].op = "check" /\ r.log[2].result
    /\ r.log[3].op = "check" /\ ~r.log[3].result
    /\ r.log[3].start = r.log[2].start /\ r.log[3].end = r.log[2].end

\* C1: a booking whose window was free at the slot listing and at the time
\* check and taken at the re-check before the write ends as a conflict: the
\* request is finished with the "someone else may have booked" error
\* response, no create_event call was made, nothing was confirmed and no
\* exception reached the caller.
C1_ConflictAtRecheck ==
    \A p \in Procs :
        FreeThenTaken(req[p]) =>
            /\ req[p].pc = "done"
            /\ Len(req[p].log) = 3
            /\ Creates(req[p].log) = {}
            /\ ~Booked(req[p])
            /\ ~req[p].response.appointment_created
            /\ req[p].response.error /\ ~req[p].response.success
            /\ req[p].response.response =
                   "Someone else may have booked this time. Please choose another slot."
            /\ ~req[p].escaped
            /\ \A e \in calendar : e.by # p

\* the re-check of p failed because another request wrote into the window
\* between p's time check and p's re-check
C1_Witness ==
    \E p \in Procs :
        /\ FreeThenTaken(req[p])
        /\ faults = 0
        /\ \E e \in calendar :
               /\ e.by \in Procs \ {p}
               /\ Overlaps(e, req[p].log[3].start, req[p].log[3].end)

\* C2 (first part): in the backend log of a request, every create_event
\* call comes directly after a check_availability call on the same start and
\* end that returned True.
CreateFollowsCheck(log) ==
    \A k \in Creates(log) :
        /\ k > 1
        /\ log[k - 1].op = "check"
        /\ log[k - 1].result
        /\ log[k - 1].start = log[k].start
        /\ log[k - 1].end = log[k].end

\* C2 (second part): a step that adds an event to the calendar adds one
\* event, and it overlaps no event the calendar held before the step.
WriteIntoFreeWindow ==
    \A e \in calendar' \ calendar :
        /\ calendar' = calendar \cup {e}
        /\ \A f \in calendar : ~Overlaps(f, e.start, e.end)

\* C2: with requests served one at a time, create_event is issued only
\* directly after a check of the same window that returned True, and a
\* booked event never overlaps an event already in the calendar.
C2_VerifyThenWrite ==
    /\ [](\A p \in Procs : CreateFollowsCheck(req[p].log))
    /\ [][WriteIntoFreeWindow]_vars

\* a request booked into a calendar that holds other events on that day
C2_Witness ==
    \E p \in Procs :
        /\ Booked(req[p])
        /\ Creates(req[p].log) # {}
        /\ \E e, f \in calendar :
               /\ e.by = p /\ f.by = 0
               /\ DayOf(e.start) = DayOf(f.start)

\* the event request p wrote for its window
EngineEvent(p) ==
    { e \in calendar : e.by = p /\ e.start = req[p].availability.start_time
                       /\ e.end = req[p].availability.end_time }

\* C3: when request p passes its re-check while request q has passed its own
\* on an overlapping window and has not written yet, nothing stops either
\* write: both go on to create_event, and unless a backend call raised both
\* are reported as booked and the calendar holds two overlapping events
\* written by the engine.
C3_DoubleBooking ==
    \A w \in verified :
        /\ \A p \in {w[1], w[2]} :
               /\ req[p].pc \in {"create", "done"}
               /\ req[p].pc = "done" => Creates(req[p].log) # {}
               /\ (req[p].pc = "done" /\ faults = 0) =>
                      Booked(req[p]) /\ EngineEvent(p) # {}
        /\ (faults = 0 /\ \A p \in {w[1], w[2]} : req[p].pc = "done") =>
               \E e \in EngineEvent(w[1]), f \in EngineEvent(w[2]) :
                   e # f /\ Overlaps(e, f.start, f.end)

\* two requests booked overlapping windows and both were confirmed
C3_Witness ==
    \E w \in verified :
        /\ Booked(req[w[1]]) /\ Booked(req[w[2]])
        /\ \E e, f \in calendar :
               /\ e.by = w[1] /\ f.by = w[2]
               /\ Overlaps(e, f.start, f.end)

\* the time and the duration _book_specific_time reads from the intent
RequestedTime(r) == Get(r.intent_data, "time", Str(<<"1","4",":","0","0">>))
RequestedDuration(r) == Get(r.intent_data, "duration_minutes", Num(60))

\* the policy of the design, on a window
ViolatesPolicy(start, end) ==
    \/ Weekday(DayOf(start)) \in {5, 6}
    \/ TimeOfDay(start) < BUSINESS_START_HOUR * 60
    \/ TimeOfDay(start) >= BUSINESS_END_HOUR * 60
    \/ TimeOfDay(end) > BUSINESS_END_HOUR * 60

\* the window a booking request asks for, when its duration is a number
RequestedStart(r) == StartTime(r.target_date, parse_time(RequestedTime(r)))
RequestedEnd(r) == RequestedStart(r) + RequestedDuration(r).v

\* a booking request with a date, a day that listed at least one slot, a
\* time and a numeric duration
TimedBooking(r) ==
    /\ r.handler = "booking"
    /\ r.slots_data.total_slots > 0
    /\ Truthy(Get(r.intent_data, "time", Null))
    /\ RequestedDuration(r).t = "int"

\* C4: create_event is never called for a window on a Saturday or Sunday,
\* starting before 10:00, starting at or after 18:00 or ending at a time of
\* day after 18:00; a booking with a date, a time and a day with a slot that
\* asks for such a window ends, after the slot listing alone, in the weekend
\* response with three later business days or in the business-hours
\* response with four suggested times.
C4_PolicyGate ==
    \A p \in Procs :
        /\ \A k \in Creates(req[p].log) :
               ~ViolatesPolicy(req[p].log[k].start, req[p].log[k].end)
        /\ (/\ TimedBooking(req[p])
            /\ ViolatesPolicy(RequestedStart(req[p]), RequestedEnd(req[p]))) =>
               /\ req[p].pc = "done"
               /\ ~req[p].escaped
               /\ \A k \in 1..Len(req[p].log) : req[p].log[k].op = "list"
               /\ Len(req[p].log) <= 1
               /\ IF Weekday(req[p].target_date) \in {5, 6}
                  THEN /\ req[p].response.action = "weekend_violation"
                       /\ Len(req[p].response.suggested_dates) = 3
                       /\ \A k \in 1..3 :
                              /\ req[p].response.suggested_dates[k].date
                                     > req[p].target_date
                              /\ Weekday(req[p].response.suggested_dates[k].date) < 5
                  ELSE /\ req[p].response.action = "business_hours_violation"
                       /\ Len(req[p].response.suggested_times) = 4

\* a weekday booking whose start is inside business hours and whose end is
\* after 18:00 was answered with the business-hours response
C4_Witness ==
    \E p \in Procs :
        /\ TimedBooking(req[p])
        /\ Weekday(req[p].target_date) < 5
        /\ TimeOfDay(RequestedStart(req[p])) >= BUSINESS_START_HOUR * 60
        /\ TimeOfDay(RequestedStart(req[p])) < BUSINESS_END_HOUR * 60
        /\ TimeOfDay(RequestedEnd(req[p])) > BUSINESS_END_HOUR * 60
        /\ req[p].pc = "done"
        /\ req[p].response.action = "business_hours_violation"

\* C5: no create_event call is made by a booking request whose date
\* parse_date replaced by its default, tomorrow (a non-empty date string
\* that is neither an ISO date nor one of the relative words).
C5_NoWriteOnDefaultDate ==
    \A p \in Procs :
        (req[p].handler = "booking" /\ req[p].via = "default") =>
            Creates(req[p].log) = {}

BookAppointment == Str(<<"b","o","o","k","_","a","p","p","o","i","n","t","m","e","n","t">>)

\* a request whose extracted intent is a booking without a date
BookingWithoutDate(r) ==
    /\ r.pc # "idle"
    /\ r.intent_data["intent"] = BookAppointment
    /\ ~Truthy(Get(r.intent_data, "date", Null))

\* C6: a booking intent whose date is null or empty is answered at once
\* with the clarification response naming "date" as missing; parse_date is
\* not called and no backend call (list, check, create) is made.
C6_ClarifyMissingDate ==
    \A p \in Procs :
        BookingWithoutDate(req[p]) =>
            /\ req[p].pc = "done"
            /\ req[p].response.needs_clarification
            /\ "date" \in req[p].response.missing_info
            /\ req[p].response.keys =
                   {"response", "needs_clarification", "missing_info"}
            /\ req[p].parse_date_calls = 0
            /\ req[p].handler = "none"
            /\ req[p].log = << >>
            /\ ~req[p].escaped

\* a booking with an empty date string and a time was asked for its date
C6_Witness ==
    \E p \in Procs :
        /\ BookingWithoutDate(req[p])
        /\ Get(req[p].intent_data, "date", Null) = Str(<< >>)
        /\ Truthy(Get(req[p].intent_data, "time", Null))
        /\ req[p].response.needs_clarification

InFlight(r) == r.pc \notin {"idle", "done"}

\* an upper bound on the backend calls a request still has to make
Rank(r) ==
    CASE r.pc = "list" -> 12
      [] r.pc = "probe" -> 11 - r.i
      [] r.pc = "check" -> 4
      [] r.pc = "recheck" -> 3
      [] r.pc = "create" -> 2
      [] r.pc = "relist" -> 1
      [] OTHER -> 0

\* what process_message handed back is a response dict with a message, and
\* no exception came with it
Answered(r) ==
    /\ ~r.escaped
    /\ "response" \in r.response.keys
    /\ r.response.response # ""

\* a request is idle, at one of its backend calls (each of which has an
\* outcome, so the step that makes the call can be taken), or finished and
\* answered
WellPlaced(r) ==
    /\ r.pc \in {"idle", "list", "check", "recheck", "create", "relist",
                 "probe", "done"}
    /\ r.pc = "probe" => r.i \in 0..6
    /\ InFlight(r) => CallOutcomes # {}
    /\ r.pc = "done" => Answered(r)

\* every step of a request in flight brings it closer to its response
Progresses ==
    \A p \in Procs :
        (InFlight(req[p]) /\ req'[p] # req[p]) =>
            /\ Rank(req'[p]) < Rank(req[p])
            /\ req'[p].pc # "idle"

\* C7: whatever the message, the completion service's reply and the
\* outcome of each backend call, process_message terminates with a response
\* dict that carries a message, and no exception reaches the caller: a
\* request in flight is at a backend call that has an outcome, every step
\* lowers the bound on the calls still to make, and a finished request is
\* answered.
C7_AlwaysAnswers ==
    /\ [](\A p \in Procs : WellPlaced(req[p]))
    /\ [][Progresses]_vars

\* an exception raised inside a handler was turned into the error response
\* by the except clause of process_message
C7_Witness ==
    \E p \in Procs :
        /\ req[p].pc = "done"
        /\ req[p].intent_data["intent"] = Str(<<"c","h","e","c","k","_","a","v","a","i","l","a","b","i","l","i","t","y">>)
        /\ Get(req[p].intent_data, "date", Null).t = "int"
        /\ req[p].response.response =
               "I apologize, but I encountered an error. Please try again."
        /\ req[p].response.error

\* the busy intervals the backend returns for the day of a resolver call
BusyOfDay == EventsList(calendar, DayStart(resolved.day), DayEnd(resolved.day))

\* C8: every slot the resolver returns lies inside the business hours of
\* the day (start at or after 10:00, end at or before 18:00, start before
\* end) and overlaps no event of the calendar, whatever the busy intervals
\* are: starting before 10:00, ending after 18:00, overlapping or nested.
C8_SlotsFreeAndInHours ==
    resolved.called =>
        \A k \in 1..Len(resolved.slots) :
            /\ resolved.slots[k].start >= DayStart(resolved.day)
            /\ resolved.slots[k].end <= DayEnd(resolved.day)
            /\ resolved.slots[k].start < resolved.slots[k].end
            /\ \A e \in calendar :
                   ~Overlaps(e, resolved.slots[k].start, resolved.slots[k].end)

\* slots were found around busy intervals that overlap each other, one of
\* them begun before 10:00 and one ended after 18:00
C8_Witness ==
    /\ resolved.called
    /\ Len(resolved.slots) >= 1
    /\ \E e, f \in calendar :
           /\ e # f /\ Overlaps(e, f.start, f.end)
           /\ e.end > DayStart(resolved.day) /\ f.start < DayEnd(resolved.day)
    /\ \E e \in calendar :
           e.start < DayStart(resolved.day) /\ e.end > DayStart(resolved.day)
    /\ \E e \in calendar :
           e.end > DayEnd(resolved.day) /\ e.start < DayEnd(resolved.day)

\* the duration a request asks for, in minutes
AskedMinutes(r) == Get(r.intent_data, "duration_minutes", Num(60))

\* C9: every slot listed for a request is as long as the duration the
\* request asked for (duration_minutes of the intent, 60 when absent).
C9_SlotsOfRequestedLength ==
    \A p \in Procs :
        (/\ req[p].pc # "idle"
         /\ AskedMinutes(req[p]).t = "int"
         /\ AskedMinutes(req[p]).v > 0) =>
            \A k \in 1..Len(req[p].slots_data.slots) :
                req[p].slots_data.slots[k].end - req[p].slots_data.slots[k].start
                    = AskedMinutes(req[p]).v

\* C10: the resolver returns at most one slot per free gap: each slot
\* starts at 10:00 or at the end of a busy interval and is duration_hours
\* long, the starts are strictly ascending, and there are at most as many
\* slots as busy intervals plus one; when the list call went through and
\* returned no busy interval, the one slot is [10:00, 10:00 + duration].
C10_OneSlotPerGap ==
    resolved.called =>
        /\ Len(resolved.slots) <= Len(BusyOfDay) + 1
        /\ \A k \in 1..Len(resolved.slots) :
               /\ \/ resolved.slots[k].start = DayStart(resolved.day)
                  \/ \E j \in 1..Len(BusyOfDay) :
                         resolved.slots[k].start = BusyOfDay[j].end
               /\ resolved.slots[k].end =
                      resolved.slots[k].start + resolved.duration_hours * 60
               /\ k > 1 => resolved.slots[k - 1].start < resolved.slots[k].start
        /\ (resolved.ok /\ BusyOfDay = << >>) =>
               /\ Len(resolved.slots) = 1
               /\ resolved.slots[1].start = DayStart(resolved.day)
               /\ resolved.slots[1].end =
                      DayStart(resolved.day) + resolved.duration_hours * 60

\* the gap between two busy intervals yielded one slot, and the six free
\* hours after the second one yielded one slot only
C10_Witness ==
    /\ resolved.called /\ resolved.ok
    /\ Len(BusyOfDay) = 2
    /\ Len(resolved.slots) = 2
    /\ resolved.duration_hours = 1
    /\ resolved.slots[1].start = BusyOfDay[1].end
    /\ resolved.slots[2].start = BusyOfDay[2].end
    /\ DayEnd(resolved.day) - BusyOfDay[2].end >= 3 * 60

\* a request whose time-availability check built a window: the request has a
\* date with at least one slot, a time and a numeric duration, and
\* check_time_availability has returned or is at its calendar call
Validated(r) == TimedBooking(r) /\ r.availability.verdict # "none"

\* the first violation in the order weekend, start before 10:00, start at or
\* after 18:00, end after 18:00; "none" when the window passes
FirstViolation(day, start, end) ==
    IF Weekday(day) \in {5, 6} THEN "weekend"
    ELSE IF TimeOfDay(start) < BUSINESS_START_HOUR * 60 THEN "before_hours"
    ELSE IF TimeOfDay(start) >= BUSINESS_END_HOUR * 60 THEN "after_hours"
    ELSE IF TimeOfDay(end) > BUSINESS_END_HOUR * 60 THEN "end_overruns_hours"
    ELSE "none"

\* C11: the time-availability check reports the first violation in the
\* order weekend, start before business start, start at or after business
\* end, end after business end, and only that one: a window on a Saturday
\* or Sunday gets the weekend verdict (weekend_violation set,
\* business_hours_violation not set) whatever its time of day.
C11_FirstViolationWins ==
    \A p \in Procs :
        Validated(req[p]) =>
            LET first == FirstViolation(req[p].target_date,
                                        RequestedStart(req[p]),
                                        RequestedEnd(req[p]))
            IN  /\ first # "none" => req[p].availability.verdict = first
                /\ first = "none" =>
                       req[p].availability.verdict
                           \in {"pending", "available", "conflict"}
                /\ req[p].availability.weekend_violation = (first = "weekend")
                /\ req[p].availability.business_hours_violation =
                       (first \in {"before_hours", "after_hours",
                                   "end_overruns_hours"})

\* a booking on a Saturday at 09:00 was answered with the weekend verdict
C11_Witness ==
    \E p \in Procs :
        /\ Validated(req[p])
        /\ Weekday(req[p].target_date) = 5
        /\ TimeOfDay(RequestedStart(req[p])) = 9 * 60
        /\ req[p].availability.verdict = "weekend"
        /\ req[p].pc = "done"
        /\ req[p].response.action = "weekend_violation"

\* C12: the dates _get_next_business_days returns are at most count (three
\* for a weekend violation), each a Monday-to-Friday date strictly after the
\* start date and among the 14 days that follow it, in ascending order.
C12_NextBusinessDays ==
    direct.op = "get_next_business_days" =>
        /\ Len(direct.result) <= direct.count
        /\ \A k \in 1..Len(direct.result) :
               /\ direct.result[k].date > direct.start_date
               /\ direct.result[k].date <= direct.start_date + 14
               /\ Weekday(direct.result[k].date) < 5
               /\ k > 1 => direct.result[k - 1].date < direct.result[k].date

\* three dates asked for from a Saturday: the Monday, Tuesday and Wednesday
\* that follow
C12_Witness ==
    /\ direct.op = "get_next_business_days"
    /\ Weekday(direct.start_date) = 5
    /\ direct.count = 3
    /\ Len(direct.result) = 3
    /\ direct.result[1].date = direct.start_date + 2
    /\ direct.result[3].date = direct.start_date + 4

\* the slots of a day, as the resolver computes them when the list call goes
\* through
SlotsOn(day) == get_available_slots(calendar, TRUE, day, 1)

\* what the design guarantees of a call of suggest_alternative_dates, at
\* every point of the call
WithinCap(r) ==
    /\ Len(r.log) <= 7
    /\ \A k \in 1..Len(r.log) :
           r.log[k].op = "list" /\ r.log[k].start = DayStart(r.target_date + k)
    /\ r.pc = "probe" => Len(r.alternatives) < r.max_suggestions
    /\ Len(r.alternatives) <= r.max_suggestions
    /\ \A k \in 1..Len(r.alternatives) :
           /\ r.alternatives[k].date \in (r.target_date + 1)..(r.target_date + 7)
           /\ SlotsOn(r.alternatives[k].date) # << >>
           /\ r.alternatives[k].slots_count = Len(SlotsOn(r.alternatives[k].date))
           /\ k > 1 => r.alternatives[k - 1].date < r.alternatives[k].date
    /\ (r.pc = "done" /\ \A k \in 1..7 : SlotsOn(r.target_date + k) = << >>) =>
           r.alternatives = << >>

\* C13: suggest_alternative_dates calls the resolver for the days after the
\* requested date, one after the other and at most seven times, does not go
\* on once the list has reached the cap, and returns a list in ascending
\* date order, no longer than the cap, of days among the seven for which the
\* resolver has slots; the list is empty when none of the seven has a slot.
C13_SuggesterWithinCap ==
    \A p \in Procs : req[p].handler = "suggest" => WithinCap(req[p])

\* C14: every date the engine offers is a business day: each date of a
\* choose_alternative_date response and the date of the slot list of a
\* show_slots response falls on Monday to Friday.
C14_OfferedDatesAreBusinessDays ==
    \A p \in Procs :
        req[p].pc = "done" =>
            /\ req[p].response.action = "choose_alternative_date" =>
                   \A k \in 1..Len(req[p].response.suggested_dates) :
                       Weekday(req[p].response.suggested_dates[k].date) < 5
            /\ req[p].response.action = "show_slots" =>
                   Weekday(req[p].response.date) < 5

\* the time check of the window went through and found it taken
TakenAtCheck(r) ==
    /\ Len(r.log) >= 2
    /\ r.log[1].op = "list" /\ r.log[1].result
    /\ r.log[2].op = "check" /\ ~r.log[2].result

\* the response offers at most 3 slots, all of them on the requested day
CarriesAlternatives(r) ==
    /\ "available_slots" \in r.response.keys
    /\ Len(r.response.available_slots) <= 3
    /\ \A k \in 1..Len(r.response.available_slots) :
           DayOf(r.response.available_slots[k].start) = r.target_date

\* C15: a booking that ends as a conflict, the window found taken at the
\* time check or at the re-check before the write, answers with a response
\* that carries a list of at most 3 slots of the requested day.
C15_ConflictCarriesAlternatives ==
    \A p \in Procs :
        (req[p].pc = "done" /\ (TakenAtCheck(req[p]) \/ FreeThenTaken(req[p]))) =>
            CarriesAlternatives(req[p])

\* the write was attempted and create_event reported a failure
CreateFailed(r) ==
    /\ r.pc = "done"
    /\ Creates(r.log) # {}
    /\ \A k \in Creates(r.log) : ~r.log[k].result

\* a response without its message text: its keys, action and flags
Structured(response) == [response EXCEPT !.response = ""]

\* what _book_specific_time answers when create_event reports a failure
GenericFailure == build_error_response("Failed to create appointment", FALSE)

\* C16: a booking whose create_event call failed is answered with the
\* generic failure response, and a booking whose re-check before the write
\* found the window taken is answered with a response that differs from it
\* in more than the message text: in its keys, action or flags.
C16_ConflictDistinctFromFailure ==
    \A p \in Procs :
        /\ CreateFailed(req[p]) => req[p].response = GenericFailure
        /\ (req[p].pc = "done" /\ FreeThenTaken(req[p])) =>
               Structured(req[p].response) # Structured(GenericFailure)

\* the response is the error response: success False and error True
HardFailure(response) ==
    /\ {"success", "error"} \subseteq response.keys
    /\ ~response.success
    /\ response.error

\* C17: a booking or availability request whose date was understood and
\* that is served while the calendar service is unavailable (every one of its
\* calendar calls comes back empty-handed) is not answered with the error
\* response.
C17_UnreachableIsNotHardFailure ==
    \A p \in Procs :
        ( /\ req[p].pc = "done"
          /\ req[p].handler \in {"booking", "availability"}
          /\ ~is_available ) =>
            ~HardFailure(req[p].response)

\* C18: a request during which check_time_availability ran into an
\* exception (duration_minutes null or not a number) is answered with the
\* error response, and neither with the alternative slots of a conflict nor
\* with a confirmation.
C18_ExceptionGivesErrorResponse ==
    \A p \in Procs :
        (req[p].pc = "done" /\ req[p].availability.has_error) =>
            /\ HardFailure(req[p].response)
            /\ req[p].response.action \notin
                   {"show_alternatives", "appointment_confirmed"}
            /\ ~req[p].response.appointment_created

\* the four intent tags
IntentTags ==
    { Str(<<"b","o","o","k","_","a","p","p","o","i","n","t","m","e","n","t">>), Str(<<"c","h","e","c","k","_","a","v","a","i","l","a","b","i","l","i","t","y">>),
      Str(<<"c","a","n","c","e","l","_","a","p","p","o","i","n","t","m","e","n","t">>), Str(<<"g","e","n","e","r","a","l","_","q","u","e","r","y">>) }

\* C19: the intent of every result of _extract_intent is one of the four
\* tags book_appointment, check_availability, cancel_appointment and
\* general_query.
C19_IntentIsOneOfFourTags ==
    \A p \in Procs :
        req[p].intent_data # NoIntent =>
            /\ "intent" \in DOMAIN req[p].intent_data
            /\ req[p].intent_data["intent"] \in IntentTags

\* the reply of the completion service is one of the failures a call of
\* _extract_intent can meet: the call raised or timed out, the status was
\* not 200, the body lacked the expected structure, the text holds no
\* '{'...'}' block, the block is not JSON, the object is empty or has no
\* 'intent' field
FailedReply(reply) ==
    \/ reply.kind \in {"raise", "status", "malformed"}
    \/ /\ reply.kind = "content"
       /\ \/ reply.open = -1 \/ reply.close = -1 \/ reply.close < reply.open
          \/ ~reply.parse_ok
          \/ reply.parsed = NoIntent
          \/ "intent" \notin DOMAIN reply.parsed

\* C20: whenever the completion service fails in one of these ways,
\* _extract_intent returns what _simple_intent_fallback returns for the same
\* message: the complete intent dict of the keyword matcher.
C20_FailuresFallBack ==
    (direct.op = "extract_intent" /\ FailedReply(direct.reply)) =>
        /\ direct.result = simple_intent_fallback(direct.user_message)
        /\ DOMAIN direct.result =
               {"intent", "date", "time", "duration_minutes",
                "appointment_type", "confidence"}
        /\ direct.result["confidence"] = Str(<<"l","o","w">>)

\* a reply whose object parses and carries a date but no intent, for a
\* message in which the keyword matcher finds a booking for tomorrow at 2 pm
C20_Witness ==
    /\ direct.op = "extract_intent"
    /\ direct.reply.kind = "content"
    /\ direct.reply.parse_ok
    /\ DOMAIN direct.reply.parsed = {"date"}
    /\ direct.result["intent"] = Str(<<"b","o","o","k","_","a","p","p","o","i","n","t","m","e","n","t">>)
    /\ direct.result["date"] = Str(<<"t","o","m","o","r","r","o","w">>)
    /\ direct.result["time"] = Str(<<"2","p","m">>)

\* the keyword sets of the classifier, and the tag of a text by keyword
\* membership in the order booking, availability, cancellation
BookWords == { <<"b","o","o","k">>, <<"s","c","h","e","d","u","l","e">>, <<"a","p","p","o","i","n","t","m","e","n","t">>, <<"c","r","e","a","t","e">>, <<"m","a","k","e">> }
CheckWords == { <<"a","v","a","i","l","a","b","l","e">>, <<"f","r","e","e">>, <<"s","l","o","t","s">>, <<"s","h","o","w">>, <<"c","h","e","c","k">> }
CancelWords == { <<"c","a","n","c","e","l">>, <<"d","e","l","e","t","e">>, <<"r","e","m","o","v","e">> }

Mentions(text, words) == \E w \in words : Contains(Lower(text), w)

TagOf(text) ==
    IF Mentions(text, BookWords) THEN Str(<<"b","o","o","k","_","a","p","p","o","i","n","t","m","e","n","t">>)
    ELSE IF Mentions(text, CheckWords) THEN Str(<<"c","h","e","c","k","_","a","v","a","i","l","a","b","i","l","i","t","y">>)
    ELSE IF Mentions(text, CancelWords) THEN Str(<<"c","a","n","c","e","l","_","a","p","p","o","i","n","t","m","e","n","t">>)
    ELSE Str(<<"g","e","n","e","r","a","l","_","q","u","e","r","y">>)

\* C21: the result of _simple_intent_fallback depends on the message text
\* alone: its intent is the tag the keyword sets give the text (letter case
\* ignored), booking before availability before cancellation before
\* general_query, and its confidence is low.
C21_FallbackClassifier ==
    direct.op = "simple_intent_fallback" =>
        /\ direct.result["intent"] = TagOf(direct.message)
        /\ direct.result["confidence"] = Str(<<"l","o","w">>)

\* a message with an availability keyword and a cancellation keyword
C21_Witness ==
    /\ direct.op = "simple_intent_fallback"
    /\ Mentions(direct.message, CancelWords)
    /\ Mentions(direct.message, CheckWords)
    /\ direct.message # Lower(direct.message)
    /\ direct.result["intent"] = Str(<<"c","h","e","c","k","_","a","v","a","i","l","a","b","i","l","i","t","y">>)
    /\ direct.result["confidence"] = Str(<<"l","o","w">>)

\* C22: parse_date returns a date for every input and never raises, and
\* parse_time returns for every input an hour in 0..23 and a minute in
\* 0..59.
C22_ParsersAreTotal ==
    /\ direct.op = "parse_date" =>
           /\ ~direct.result.raised
           /\ direct.result.day >= ToOrdinal(1, 1, 1)
    /\ direct.op = "parse_time" =>
           /\ direct.result[1] \in 0..23
           /\ direct.result[2] \in 0..59

\* C23: when the fields of the time parse and the hour is outside 0..23 or
\* the minute is outside 0..59, parse_time returns (14, 0).
C23_OutOfRangeGivesDefault ==
    ( /\ direct.op = "parse_time"
      /\ TimeFields(direct.time_str).ok
      /\ \/ TimeFields(direct.time_str).hour \notin 0..23
         \/ TimeFields(direct.time_str).minute \notin 0..59 ) =>
        direct.result = << 14, 0 >>

\* the weekday names, Monday first as datetime.weekday() counts them
WeekdayNames ==
    << <<"m","o","n","d","a","y">>, <<"t","u","e","s","d","a","y">>, <<"w","e","d","n","e","s","d","a","y">>, <<"t","h","u","r","s","d","a","y">>, <<"f","r","i","d","a","y">>,
       <<"s","a","t","u","r","d","a","y">>, <<"s","u","n","d","a","y">> >>

\* the text of a date input as parse_date compares it
DateWord(date_string) == Lower(Strip(date_string.v))

\* C24: parse_date gives a well-formed ISO date that date, 'today' today,
\* 'tomorrow' the next day, 'day after tomorrow' and 'overmorrow' the day
\* after that, a weekday name a date after today that falls on that weekday,
\* and tomorrow to anything else, null and the empty string included.
C24_DateResolutionOrder ==
    (direct.op = "parse_date" /\ direct.date_string.t # "int") =>
        /\ ~direct.result.raised
        /\ IF direct.date_string.t = "null" THEN direct.result.day = Today + 1
           ELSE IF Strptime(Strip(direct.date_string.v)).ok
           THEN direct.result.day = Strptime(Strip(direct.date_string.v)).day
           ELSE IF DateWord(direct.date_string) = <<"t","o","d","a","y">>
           THEN direct.result.day = Today
           ELSE IF DateWord(direct.date_string) = <<"t","o","m","o","r","r","o","w">>
           THEN direct.result.day = Today + 1
           ELSE IF DateWord(direct.date_string) \in
                       { <<"d","a","y"," ","a","f","t","e","r"," ","t","o","m","o","r","r","o","w">>, <<"o","v","e","r","m","o","r","r","o","w">> }
           THEN direct.result.day = Today + 2
           ELSE IF \E k \in 1..7 : DateWord(direct.date_string) = WeekdayNames[k]
           THEN /\ direct.result.day > Today
                /\ DateWord(direct.date_string) =
                       WeekdayNames[Weekday(direct.result.day) + 1]
           ELSE direct.result.day = Today + 1

\* the request has called get_available_slots_with_details, and the
\* calendar service was unavailable or its list call failed
ListFailed(r) ==
    /\ r.handler \in {"booking", "availability"}
    /\ r.pc # "list"
    /\ \/ ~is_available
       \/ r.log # << >> /\ r.log[1].op = "list" /\ ~r.log[1].result

\* C25: when the calendar service is unavailable or its list call fails,
\* get_available_slots_with_details raises nothing and returns the empty
\* result: no slots, total_slots 0, both flags false, exactly what it
\* returns for a reachable backend and a fully booked day.
C25_FailedListIsEmptyDay ==
    \A p \in Procs :
        ListFailed(req[p]) =>
            /\ req[p].pc # "raised" /\ ~req[p].escaped
            /\ req[p].slots_data.date = req[p].target_date
            /\ req[p].slots_data.slots = << >>
            /\ req[p].slots_data.total_slots = 0
            /\ ~req[p].slots_data.has_morning_slots
            /\ ~req[p].slots_data.has_afternoon_slots
            /\ req[p].slots_data =
                   SlotsData(req[p].target_date,
                             get_available_slots(
                                 { Busy(req[p].target_date, BUSINESS_START_HOUR, 0,
                                        BUSINESS_END_HOUR, 0) },
                                 TRUE, req[p].target_date, 1))

\* the list call of a request failed on a reachable backend whose calendar
\* is empty, and the request went on to look for alternative dates
C25_Witness ==
    \E p \in Procs :
        /\ ListFailed(req[p])
        /\ is_available
        /\ calendar = {}
        /\ req[p].slots_data.total_slots = 0
        /\ req[p].pc = "probe"

\* C26: a window of positive length that passes the business-day and
\* business-hours checks of check_time_availability lies inside the
\* business hours of one business day: it starts at or after 10:00 and ends
\* on the day it starts, at or before 18:00.
C26_WindowInsideBusinessDay ==
    \A p \in Procs :
        ( /\ req[p].availability.has_window
          /\ req[p].availability.end_time > req[p].availability.start_time ) =>
            /\ Weekday(DayOf(req[p].availability.start_time)) < 5
            /\ TimeOfDay(req[p].availability.start_time) >= BUSINESS_START_HOUR * 60
            /\ DayOf(req[p].availability.end_time) =
                   DayOf(req[p].availability.start_time)
            /\ TimeOfDay(req[p].availability.end_time) <= BUSINESS_END_HOUR * 60

\* a step that changes the calendar is the create_event step of a
\* book_appointment request that ends confirmed, and it adds one event
OnlyBookingWrites ==
    calendar' # calendar =>
        \E p \in Procs :
            /\ req[p].pc = "create"
            /\ req[p].intent_data["intent"] = Str(<<"b","o","o","k","_","a","p","p","o","i","n","t","m","e","n","t">>)
            /\ Booked(req'[p])
            /\ \E e \in calendar' : e.by = p /\ calendar' = calendar \cup {e}
            /\ calendar \subseteq calendar'

\* C27: a request calls create_event at most once, and the calendar changes
\* only in the step in which a book_appointment request writes its event and
\* is confirmed: requests that end in any other response, and requests of
\* any other intent, leave the set of events as it was.
C27_OnlyBookedChangesCalendar ==
    /\ [](\A p \in Procs : Cardinality(Creates(req[p].log)) <= 1)
    /\ [][OnlyBookingWrites]_vars

\* a confirmed request next to an event it did not write
C27_Witness ==
    \E p \in Procs :
        /\ Booked(req[p])
        /\ Cardinality(Creates(req[p].log)) = 1
        /\ \E e \in calendar : e.by = p
        /\ \E e \in calendar : e.by = 0

\* the event the request asked for: the resolved date at the parsed hour
\* and minute, for the intent's duration
AskedStart(r) ==
    AtTime(r.target_date,
           parse_time(Get(r.intent_data, "time", Str(<<"1","4",":","0","0">>)))[1],
           parse_time(Get(r.intent_data, "time", Str(<<"1","4",":","0","0">>)))[2])

AskedEnd(r) == AskedStart(r) + Get(r.intent_data, "duration_minutes", Num(60)).v

TitleIsAIScheduled(title) ==
    Len(title) >= 12 /\ SubSeq(title, 1, 12) = <<"A","I"," ","S","c","h","e","d","u","l","e","d">>

\* what the step that writes the event of a confirmed booking leaves
\* behind: the event and the appointment_details that report it
ConfirmedAsWritten ==
    \A p \in Procs :
        (req[p].pc = "create" /\ Booked(req'[p])) =>
            \E e \in calendar' \ calendar :
                /\ e.start = AskedStart(req[p])
                /\ e.end = AskedEnd(req[p])
                /\ TitleIsAIScheduled(e.summary)
                /\ req'[p].response.appointment_details.title = e.summary
                /\ req'[p].response.appointment_details.date = DayOf(e.start)
                /\ req'[p].response.appointment_details.start_time =
                       FormatHM(e.start)
                /\ req'[p].response.appointment_details.end_time =
                       FormatHM(e.end)
                /\ req'[p].response.appointment_details.duration_minutes =
                       e.end - e.start

\* C28: in the step that writes the event of a confirmed booking, the event
\* starts on the resolved date at the parsed hour and minute, ends
\* duration_minutes later and has a title that begins with 'AI Scheduled',
\* and the appointment_details of the response give the title, the date,
\* the start and the end of that event.
C28_BookedEventIsRequestedWindow == [][ConfirmedAsWritten]_vars

\* a confirmed booking of half an hour that starts at half past the hour
C28_Witness ==
    \E p \in Procs :
        /\ Booked(req[p])
        /\ req[p].response.appointment_details.duration_minutes = 30
        /\ \E e \in calendar :
               /\ e.by = p
               /\ e.start = AskedStart(req[p])
               /\ TimeOfDay(e.start) % 60 = 30
               /\ e.end = e.start + 30

\* the backend calls of the request so far are slot listings
OnlyLists(log) == \A k \in 1..Len(log) : log[k].op = "list"

\* the booking request has its slots_data
HasListed(r) == r.handler = "booking" /\ r.pc # "list"

\* C29: a booking request whose day has no slot goes on to the alternative
\* dates and ends with the response build_alternatives_response makes of
\* them, with no check_time_availability, no calendar call other than slot
\* listings and no write, whether or not a time was given; a booking
\* request whose day has a slot and that names no time ends with the slot
\* list of the day after the one listing, with no write.
C29_BookingWithoutSlotsOrTime ==
    \A p \in Procs :
        /\ (HasListed(req[p]) /\ req[p].slots_data.total_slots = 0) =>
               /\ req[p].pc \in {"probe", "done"}
               /\ req[p].availability.verdict = "none"
               /\ OnlyLists(req[p].log)
               /\ req[p].pc = "done" =>
                      /\ req[p].response =
                             build_alternatives_response(req[p].alternatives,
                                                         req[p].target_date)
                      /\ req[p].alternatives # << >> =>
                             req[p].response.action = "choose_alternative_date"
        /\ ( /\ HasListed(req[p]) /\ req[p].slots_data.total_slots > 0
             /\ ~Truthy(Get(req[p].intent_data, "time", Null)) ) =>
               /\ req[p].pc = "done"
               /\ req[p].availability.verdict = "none"
               /\ OnlyLists(req[p].log) /\ Len(req[p].log) <= 1
               /\ req[p].response.action = "show_slots"
               /\ req[p].response.available_slots = req[p].slots_data.slots

\* a booking with a time on a fully booked day that ended with alternative
\* dates
C29_Witness ==
    \E p \in Procs :
        /\ HasListed(req[p])
        /\ req[p].pc = "done"
        /\ is_available /\ faults = 0
        /\ req[p].slots_data.total_slots = 0
        /\ Truthy(Get(req[p].intent_data, "time", Null))
        /\ req[p].response.action = "choose_alternative_date"

\* the text states the time token as a whole time expression: the token,
\* with or without a blank before am or pm, stands somewhere in the text
\* and no digit stands directly before it
StatesTime(text, token) ==
    \E form \in { token,
                  SubSeq(token, 1, Len(token) - 2) \o << " " >>
                      \o SubSeq(token, Len(token) - 1, Len(token)) } :
        \E i \in 0..Len(text) :
            /\ MatchAt(Lower(text), form, i)
            /\ i = 0 \/ text[i] \notin Digits

\* C30: when _simple_intent_fallback returns a time, the message states
\* that time as a whole time expression, and not only as the tail of a
\* longer one such as '12pm'.
C30_FallbackTimeIsStated ==
    (direct.op = "simple_intent_fallback" /\ direct.result["time"] # Null) =>
        StatesTime(direct.message, direct.result["time"].v)

====
